---------------------------- MODULE Spec2Model ----------------------------
(*************************************************************************)
(* A model of discopy's symmetric diagram algebra (symmetric.py) and of  *)
(* its tensor evaluator (tensor.py).                                     *)
(*                                                                       *)
(*   SpecBackend  the process-wide backend stack of tensor.Tensor        *)
(*   SpecSym      calls of the diagram algebra of symmetric.Diagram      *)
(*   SpecTensor   tensor diagrams built layer by layer and evaluated     *)
(*************************************************************************)
EXTENDS Integers, Sequences, FiniteSets, TLC

VARIABLES
    backend_stack,          \* Tensor._backend_stack, bottom first
    INSTANTIATED_BACKENDS,  \* the backend classes instantiated so far
    scopes,                 \* the open `with Tensor.backend(..)` scopes, oldest first
    raising,                \* per caller: an exception is propagating
    ret,                    \* the outcome of the last call on the backend API
    call,                   \* the last call on the diagram algebra and its result
    f,                      \* a tensor diagram under construction
    g,                      \* the second operand of the last evaluation
    out                     \* the outcome of the last evaluation

backendVars == <<backend_stack, INSTANTIATED_BACKENDS, scopes, raising, ret>>
symVars == <<call>>
tensorVars == <<f, g, out>>
vars == <<backend_stack, INSTANTIATED_BACKENDS, scopes, raising, ret, call, f, g, out>>

(*************************************************************************)
(* Bounds of the model.                                                  *)
(*************************************************************************)
MaxDepth == 3       \* longest backend stack explored
MaxTyLen == 2       \* longest type swapped, longest dom and cod of a box
MaxPerm == 3        \* longest type permuted, longest list passed as a permutation
MaxLayers == 2      \* most layers of a tensor diagram built
MaxWires == 2       \* most wires under a layer of a tensor diagram built
MaxTerms == 2       \* most terms of a sum evaluated
MaxDims == 3        \* most components passed to Dim
MaxCopies == 4      \* most copies of a box composed in sequence
MaxQubits == 4      \* most qubits of a circuit rewired
MaxQudit == 5       \* largest dimension of a qudit
MaxTimes == 6       \* largest exponent of a gate, in absolute value

(*************************************************************************)
(* Generic helpers on sequences.                                         *)
(*************************************************************************)
Range(s) == {s[i] : i \in DOMAIN s}

\* s[a:b] of Python for 0 <= a, with b clipped to len(s)
Slice(s, a, b) ==
    LET hi == IF b > Len(s) THEN Len(s) ELSE b
    IN  IF a >= hi THEN <<>> ELSE SubSeq(s, a + 1, hi)

\* s[a:] of Python
SliceFrom(s, a) == Slice(s, a, Len(s))

(*************************************************************************)
(* Types, boxes, layers and diagrams.  A type is the sequence of its     *)
(* atomic objects; x @ y is x \o y and Ty() is << >>.  The classes        *)
(* monoidal.Ty, monoidal.Layer and monoidal.Diagram are imported by       *)
(* symmetric.py (lines 74-76) from modules that are not part of the      *)
(* sources at hand; they follow sections 3 and 4.2 of the specification. *)
(*************************************************************************)
Atoms == {"x", "y", "z"}

\* the types of at most n atoms taken from atoms
TypesOver(atoms, n) == UNION {[1 .. k -> atoms] : k \in 0 .. n}

\* Box(name, dom, cod): a generator without payload
Box(name, dom, cod) ==
    [kind |-> "Box", name |-> name, dom |-> dom, cod |-> cod, data |-> <<>>,
     is_dagger |-> FALSE]

\* Swap(left, right), for types left and right of one atom each
Swap(left, right) ==
    [kind |-> "Swap", name |-> "Swap", dom |-> left \o right,
     cod |-> right \o left, data |-> <<>>, is_dagger |-> FALSE]

Layer(left, box, right) == [left |-> left, box |-> box, right |-> right]

\* the type a layer takes and the type it gives
LayerDom(l) == l.left \o l.box.dom \o l.right
LayerCod(l) == l.left \o l.box.cod \o l.right

\* a box seen as the diagram of its one layer
BoxDiagram(box) ==
    [dom |-> box.dom, cod |-> box.cod, inside |-> <<Layer(<<>>, box, <<>>)>>]

\* Diagram.id(x): no layer
Id(x) == [dom |-> x, cod |-> x, inside |-> <<>>]

\* the offsets and the boxes of a diagram, layer by layer
Offsets(d) == [i \in DOMAIN d.inside |-> Len(d.inside[i].left)]
Boxes(d) == [i \in DOMAIN d.inside |-> d.inside[i].box]

\* the layers compose: each takes the type the one before gives
WellTyped(d) ==
    /\ \A i \in DOMAIN d.inside :
        LayerDom(d.inside[i]) =
            (IF i = 1 THEN d.dom ELSE LayerCod(d.inside[i - 1]))
    /\ d.cod = (IF d.inside = <<>> THEN d.dom
                ELSE LayerCod(d.inside[Len(d.inside)]))

\* left >> right may be formed
Composable(left, right) == left.cod = right.dom

\* left >> right, for composable diagrams: the layers of left, then those of right
then(left, right) ==
    [dom |-> left.dom, cod |-> right.cod, inside |-> left.inside \o right.inside]

\* left @ right: the layers of left with right.dom on their right, then the
\* layers of right with left.cod on their left (the left factor acts first)
tensor(left, right) ==
    [dom |-> left.dom \o right.dom,
     cod |-> left.cod \o right.cod,
     inside |->
        [i \in DOMAIN left.inside |->
            [left.inside[i] EXCEPT !.right = left.inside[i].right \o right.dom]]
        \o
        [i \in DOMAIN right.inside |->
            [right.inside[i] EXCEPT !.left = left.cod \o right.inside[i].left]]]

\* the outcome of a call that may raise
Ok(v) == [raised |-> "None", value |-> v]
Raised(kind) == [raised |-> kind, value |-> Id(<<>>)]

\* the box may be put at the offset under the diagram
Fits(d, box, off) ==
    /\ off + Len(box.dom) <= Len(d.cod)
    /\ Slice(d.cod, off, off + Len(box.dom)) = box.dom
    /\ Len(d.cod) - Len(box.dom) + Len(box.cod) <= MaxWires

\* Id(left) @ box @ Id(right), the layer of the box at the offset
Whisker(d, box, off) ==
    tensor(tensor(Id(Slice(d.cod, 0, off)), BoxDiagram(box)),
           Id(SliceFrom(d.cod, off + Len(box.dom))))

(*************************************************************************)
(* The braiding of two types out of swaps of atoms (balanced.hexagon,    *)
(* named by the docstring of Diagram.swap; its equations are the         *)
(* Triangle and Hexagon doctests, symmetric.py lines 27-36).             *)
(*************************************************************************)
RECURSIVE braid(_, _)
braid(left, right) ==
    IF Len(left) = 0 THEN Id(right)
    ELSE IF Len(right) = 0 THEN Id(left)
    ELSE IF Len(left) = 1 /\ Len(right) = 1 THEN BoxDiagram(Swap(left, right))
    ELSE IF Len(left) = 1
    THEN then(tensor(braid(left, Slice(right, 0, 1)), Id(SliceFrom(right, 1))),
              tensor(Id(Slice(right, 0, 1)), braid(left, SliceFrom(right, 1))))
    ELSE then(tensor(Id(Slice(left, 0, 1)), braid(SliceFrom(left, 1), right)),
              tensor(braid(Slice(left, 0, 1), right), Id(SliceFrom(left, 1))))

\* a swap that braids the wrong way round
swap_Reversed(left, right) == braid(right, left)

\* Diagram.swap(left, right)
swap(left, right) == braid(left, right)

(*************************************************************************)
(* Diagram.permutation and Diagram.permute.  Indices are Python's: xs    *)
(* holds positions counted from 0.                                       *)
(*************************************************************************)
\* list(range(n))
RangeList(n) == [i \in 1 .. n |-> i - 1]

\* a sort that leaves the list as it is
sorted_Unsorted(xs) == xs

\* sorted(xs), by insertion
RECURSIVE sorted(_)
Insert(x, s) ==
    LET k == Cardinality({i \in DOMAIN s : s[i] <= x})
    IN  SubSeq(s, 1, k) \o <<x>> \o SubSeq(s, k + 1, Len(s))
sorted(xs) == IF xs = <<>> THEN <<>> ELSE Insert(xs[1], sorted(Tail(xs)))

\* a recursion that forgets to shift the indices above i down
ShiftDown_None(xs, i) == [k \in 1 .. Len(xs) - 1 |-> xs[k + 1]]

\* [x - 1 if x > i else x for x in xs[1:]]
ShiftDown(xs, i) ==
    [k \in 1 .. Len(xs) - 1 |-> IF xs[k + 1] > i THEN xs[k + 1] - 1 ELSE xs[k + 1]]

\* Diagram.permutation(xs, dom), for a given dom
RECURSIVE permutation(_, _)
permutation(xs, dom) ==
    IF RangeList(Len(dom)) # sorted(xs) THEN Raised("ValueError")
    ELSE IF Len(dom) <= 1 THEN Ok(Id(dom))
    ELSE LET i == xs[1]
             rest == permutation(ShiftDown(xs, i),
                                 Slice(dom, 0, i) \o SliceFrom(dom, i + 1))
         IN  IF rest.raised # "None" THEN rest
             ELSE Ok(then(tensor(swap(Slice(dom, 0, i), Slice(dom, i, i + 1)),
                                 Id(SliceFrom(dom, i + 1))),
                          tensor(Id(Slice(dom, i, i + 1)), rest.value)))

\* self.permute(xs)
permute(self, xs) ==
    LET p == permutation(xs, self.cod)
    IN  IF p.raised # "None" THEN p ELSE Ok(then(self, p.value))

(*************************************************************************)
(* The hypergraph of a diagram (section 4.3 of the specification;        *)
(* balanced.Hypergraph is not part of the sources at hand).  A port is   *)
(* <<n, j>>: as a source, output j of node n, or input j of the diagram  *)
(* when n = 0.  ins[n][j] is the source wired to input j of node n and   *)
(* outs[k] the source wired to output k of the diagram.                  *)
(*************************************************************************)
RECURSIVE Scan(_, _, _)
Scan(layers, h, open) ==
    IF layers = <<>> THEN [h EXCEPT !.outs = open]
    ELSE LET l == layers[1]
             off == Len(l.left)
         IN  IF l.box.kind = "Swap"
             THEN Scan(Tail(layers), h,
                       Slice(open, 0, off) \o <<open[off + 2], open[off + 1]>>
                           \o SliceFrom(open, off + 2))
             ELSE LET n == Len(h.boxes) + 1
                  IN  Scan(Tail(layers),
                           [h EXCEPT !.boxes = Append(@, l.box),
                                     !.ins = Append(@, Slice(open, off,
                                                     off + Len(l.box.dom)))],
                           Slice(open, 0, off)
                               \o [j \in 1 .. Len(l.box.cod) |-> <<n, j>>]
                               \o SliceFrom(open, off + Len(l.box.dom)))

\* Diagram.to_hypergraph()
to_hypergraph(d) ==
    Scan(d.inside,
         [dom |-> d.dom, cod |-> d.cod, boxes |-> <<>>, ins |-> <<>>, outs |-> <<>>],
         [i \in 1 .. Len(d.dom) |-> <<0, i>>])

\* the bijections of 1 .. n
Bijections(n) == {p \in [1 .. n -> 1 .. n] : \A i, j \in 1 .. n : p[i] = p[j] => i = j}

\* Hypergraph.__eq__: the same boundary and, up to a renaming of the nodes,
\* the same boxes wired the same way
Isomorphic(h1, h2) ==
    /\ h1.dom = h2.dom
    /\ h1.cod = h2.cod
    /\ Len(h1.boxes) = Len(h2.boxes)
    /\ \E p \in Bijections(Len(h1.boxes)) :
        LET ren(port) == IF port[1] = 0 THEN port ELSE <<p[port[1]], port[2]>>
            renAll(ports) == [k \in DOMAIN ports |-> ren(ports[k])]
        IN  /\ \A n \in DOMAIN h1.boxes :
                /\ h2.boxes[p[n]] = h1.boxes[n]
                /\ h2.ins[p[n]] = renAll(h1.ins[n])
            /\ h2.outs = renAll(h1.outs)

\* an equality that compares the layers one by one, as plain diagrams do
Diagram_eq_Layers(self, other) == self = other

\* Diagram.__eq__(self, other), both symmetric diagrams
Diagram_eq(self, other) == Isomorphic(to_hypergraph(self), to_hypergraph(other))

(*************************************************************************)
(* Hypergraph.to_diagram and Diagram.simplify (symmetric.py lines        *)
(* 179-181).  to_diagram is code of balanced.Hypergraph; following       *)
(* section 4.3 of the specification it lays the nodes out in their order *)
(* of insertion, each at offset 0 after swaps have brought the wires it  *)
(* takes to the front, and ends with the swaps that put the open wires   *)
(* in the order of the boundary.                                         *)
(*************************************************************************)
\* the atom carried by a port of the hypergraph
PortType(h, port) ==
    IF port[1] = 0 THEN h.dom[port[2]] ELSE h.boxes[port[1]].cod[port[2]]

\* the swap of the wires at positions i and i + 1 of the open wires
SwapAt(h, st, i) ==
    LET types == [k \in DOMAIN st.open |-> PortType(h, st.open[k])]
    IN  [open |-> [k \in DOMAIN st.open |->
                     IF k = i THEN st.open[i + 1]
                     ELSE IF k = i + 1 THEN st.open[i] ELSE st.open[k]],
         layers |-> Append(st.layers,
                           Layer(Slice(types, 0, i - 1),
                                 Swap(<<types[i]>>, <<types[i + 1]>>),
                                 SliceFrom(types, i + 1)))]

\* the wire at position p brought to position q <= p by swaps with its
\* left neighbours
RECURSIVE MoveTo(_, _, _, _)
MoveTo(h, st, p, q) ==
    IF p <= q THEN st ELSE MoveTo(h, SwapAt(h, st, p - 1), p - 1, q)

\* the wanted ports brought, in their order, to the positions from q on
RECURSIVE Arrange(_, _, _, _)
Arrange(h, st, wanted, q) ==
    IF wanted = <<>> THEN st
    ELSE LET p == CHOOSE k \in DOMAIN st.open : st.open[k] = wanted[1]
         IN  Arrange(h, MoveTo(h, st, p, q), Tail(wanted), q + 1)

\* the nodes from n on laid out, each at offset 0
RECURSIVE LayOut(_, _, _)
LayOut(h, st, n) ==
    IF n > Len(h.boxes) THEN st
    ELSE LET box == h.boxes[n]
             ready == Arrange(h, st, h.ins[n], 1)
             rest == SliceFrom(ready.open, Len(box.dom))
         IN  LayOut(h,
                    [open |-> [j \in 1 .. Len(box.cod) |-> <<n, j>>] \o rest,
                     layers |-> Append(ready.layers,
                                       Layer(<<>>, box,
                                             [k \in DOMAIN rest |-> PortType(h, rest[k])]))],
                    n + 1)

\* a layout that leaves the open wires in the order the last node left them
to_diagram_Unordered(h) ==
    [dom |-> h.dom, cod |-> h.cod,
     inside |-> LayOut(h, [open |-> [i \in 1 .. Len(h.dom) |-> <<0, i>>],
                           layers |-> <<>>], 1).layers]

\* hypergraph.to_diagram()
to_diagram(h) ==
    LET nodes == LayOut(h, [open |-> [i \in 1 .. Len(h.dom) |-> <<0, i>>],
                            layers |-> <<>>], 1)
    IN  [dom |-> h.dom, cod |-> h.cod,
         inside |-> Arrange(h, nodes, h.outs, 1).layers]

\* Diagram.simplify(self)
simplify(self) == to_diagram(to_hypergraph(self))

(*************************************************************************)
(* Hypergraph.depth(): the number of boxes on the longest path from box  *)
(* to box, a box following another when one of its inputs is an output   *)
(* of the other.  Swaps are no boxes of the hypergraph.                  *)
(*************************************************************************)
SetMax(S) == CHOOSE x \in S : \A y \in S : y <= x

\* the boxes on the longest path that ends with box n
RECURSIVE BoxDepth(_, _)
BoxDepth(h, n) ==
    1 + SetMax({0} \cup {BoxDepth(h, h.ins[n][k][1]) :
                            k \in {k \in DOMAIN h.ins[n] : h.ins[n][k][1] # 0}})

Hypergraph_depth(h) == SetMax({0} \cup {BoxDepth(h, n) : n \in DOMAIN h.boxes})

\* a depth that counts the layers, as for a diagram without swaps
depth_Layers(self) == Len(self.inside)

\* Diagram.depth()
depth(self) == Hypergraph_depth(to_hypergraph(self))

(*************************************************************************)
(* The dagger of boxes and diagrams.  Swap.dagger is symmetric.py lines  *)
(* 236-237; the dagger of a box and of a diagram are code of cat and     *)
(* monoidal, which is not part of the sources at hand.                   *)
(*************************************************************************)
(*************************************************************************)
(* Generalised gates: quantum/gates.py lines 112-138 and 647-744.  The   *)
(* type of d-level qudits is written by its dimensions, as               *)
(* _get_qudit_dims reads it; kind is the class of the box.               *)
(*************************************************************************)
GeneralizedQuantumGate(name, dom, _dagger) ==
    [kind |-> "GeneralizedQuantumGate", name |-> name, dom |-> dom, cod |-> dom,
     data |-> <<>>, is_dagger |-> _dagger]

\* GX(dom), Neg(dom), GZ(dom), GH(dom) on one qudit, Add(dom) on two
GX(dom) == [GeneralizedQuantumGate("X", dom, FALSE) EXCEPT !.kind = "GX"]
Neg(dom) == [GeneralizedQuantumGate("Neg", dom, FALSE) EXCEPT !.kind = "Neg"]
GZ(dom) == [GeneralizedQuantumGate("Z", dom, FALSE) EXCEPT !.kind = "GZ"]
GH(dom) == [GeneralizedQuantumGate("H", dom, FALSE) EXCEPT !.kind = "GH"]
Add(dom) == [GeneralizedQuantumGate("Add", dom, FALSE) EXCEPT !.kind = "Add"]

GeneralizedKinds == {"GeneralizedQuantumGate", "GX", "GZ", "GH", "Add"}

\* GeneralizedQuantumGate.dagger(self): a GeneralizedQuantumGate of the same
\* name with the flag flipped
GeneralizedQuantumGate_dagger(self) ==
    GeneralizedQuantumGate(self.name, self.dom, ~self.is_dagger)

\* Neg.dagger(self): type(self)(self.dom)
Neg_dagger(self) == Neg(self.dom)

\* a dagger that keeps the two sides of the swap where they are
Swap_dagger_Same(self) == Swap(Slice(self.dom, 0, 1), Slice(self.dom, 1, 2))

\* Swap.dagger(self): type(self)(self.right, self.left)
Swap_dagger(self) == Swap(Slice(self.dom, 1, 2), Slice(self.dom, 0, 1))

\* box.dagger(): the box with dom and cod exchanged and is_dagger flipped
Box_dagger(box) ==
    IF box.kind = "Swap" THEN Swap_dagger(box)
    ELSE IF box.kind = "Neg" THEN Neg_dagger(box)
    ELSE IF box.kind \in GeneralizedKinds THEN GeneralizedQuantumGate_dagger(box)
    ELSE [box EXCEPT !.dom = box.cod, !.cod = box.dom, !.is_dagger = ~box.is_dagger]

\* diagram.dagger(): the daggers of the layers, last layer first
Diagram_dagger(d) ==
    [dom |-> d.cod, cod |-> d.dom,
     inside |-> [i \in DOMAIN d.inside |->
                    LET l == d.inside[Len(d.inside) + 1 - i]
                    IN  Layer(l.left, Box_dagger(l.box), l.right)]]

(*************************************************************************)
(* _gate_pow: quantum/gates.py lines 83-109.  times is a Python value    *)
(* with its type; a float is written by its floor, value 1 standing for  *)
(* 1.5.  period is <<>> for None and <<p>> for the number p.             *)
(*************************************************************************)
Abs(n) == IF n < 0 THEN -n ELSE n

\* lines 106-108: result = result >> gate, n times over
RECURSIVE Repeat(_, _, _)
Repeat(result, gate, n) ==
    IF n = 0 THEN result ELSE Repeat(then(result, BoxDiagram(gate)), gate, n - 1)

\* the exponent reduced modulo the period and never moved to the shorter side
_gate_pow_NoFlip(gate, times, period) ==
    IF times.type # "int" THEN Raised("TypeError")
    ELSE
        LET dg0 == times.value < 0
            t0 == Abs(times.value)
            reduce == period # <<>> /\ period[1] # 0
            t1 == IF reduce THEN t0 % period[1] ELSE t0
            result == Repeat(Id(gate.dom), gate, t1)
        IN  IF reduce /\ period[1] < 0 THEN Raised("AssertionError")
            ELSE Ok(IF dg0 THEN Diagram_dagger(result) ELSE result)

\* _gate_pow(gate, times, period)
_gate_pow(gate, times, period) ==
    IF times.type # "int" THEN Raised("TypeError")
    ELSE
        LET dg0 == times.value < 0
            t0 == Abs(times.value)
            reduce == period # <<>> /\ period[1] # 0
            t1 == IF reduce THEN t0 % period[1] ELSE t0
            flip == reduce /\ period[1] - t1 < t1
            dg == IF flip THEN ~dg0 ELSE dg0
            t2 == IF flip THEN period[1] - t1 ELSE t1
            result == Repeat(Id(gate.dom), gate, t2)
        IN  IF reduce /\ period[1] < 0 THEN Raised("AssertionError")
            ELSE Ok(IF dg THEN Diagram_dagger(result) ELSE result)

\* GeneralizedQuantumGate.__pow__ (line 137) and the __pow__ of GX, Neg, GZ,
\* GH and Add (lines 659-744): the period each passes, d the first dimension
PowPeriod(gate) ==
    LET d == gate.dom[1]
    IN  CASE gate.kind \in {"GX", "GZ", "Add"} -> <<d>>
          [] gate.kind = "Neg" -> <<IF d > 2 THEN 2 ELSE 1>>
          [] gate.kind = "GH" -> <<IF d > 2 THEN 4 ELSE 2>>
          [] OTHER -> <<>>

\* gate ** times
Gate_pow(gate, times) == _gate_pow(gate, times, PowPeriod(gate))

(*************************************************************************)
(* rewire: quantum/gates.py lines 839-874.  A circuit is a symmetric     *)
(* diagram over the atom qubit, SWAP is Swap(qubit, qubit) (line 822)    *)
(* and Box.id(n) is the identity on n qubits.                            *)
(*************************************************************************)
qubit == <<"qubit">>

\* qubit ** n, empty when n is not positive
RECURSIVE Pow(_, _)
Pow(x, n) == IF n <= 0 THEN <<>> ELSE x \o Pow(x, n - 1)

SWAP == BoxDiagram(Swap(qubit, qubit))

\* dom=None
NoDom == <<"None">>

\* perm[i], perm[j] = x, y on a list indexed from 0: perm[i] is set first
Assign2(perm, i, x, j, y) == [[perm EXCEPT ![i + 1] = x] EXCEPT ![j + 1] = y]

\* lines 866-872: the list passed to Box.permutation
rewire_perm(a, b, n, reverse) ==
    LET perm0 == RangeList(n)
        perm1 == Assign2(perm0, 0, a, a, 0)
        perm2 == Assign2(perm1, 1, perm1[b + 1], b, perm1[2])
    IN  IF reverse THEN Assign2(perm2, 0, perm2[2], 1, perm2[1]) ELSE perm2

\* rewire(op, a, b, dom=given), op a circuit
rewire(op, a, b, given) ==
    LET dom == IF given = NoDom THEN Pow(qubit, (IF a > b THEN a ELSE b) + 1) ELSE given
        n == Len(dom)
        lo == IF a < b THEN a ELSE b
        hi == IF a < b THEN b ELSE a
    IN  IF a = b THEN Raised("ValueError")
        ELSE IF n < 2 THEN Raised("ValueError")
        ELSE IF op.dom # Pow(qubit, 2) THEN Raised("ValueError")
        ELSE IF b - a = 1
        THEN Ok(tensor(tensor(Id(Pow(qubit, a)), op), Id(Pow(qubit, n - (b + 1)))))
        ELSE IF b - a = -1
        THEN LET swapped == IF op.cod = op.dom THEN then(then(SWAP, op), SWAP)
                            ELSE then(SWAP, op)
             IN  Ok(tensor(tensor(Id(Pow(qubit, b)), swapped),
                           Id(Pow(qubit, n - (a + 1)))))
        ELSE IF op.cod # op.dom THEN Raised("NotImplementedError")
        ELSE IF hi >= n THEN Raised("IndexError")
        ELSE LET perm == permutation(rewire_perm(lo, hi, n, a > b), dom).value
             IN  Ok(then(then(Diagram_dagger(perm), tensor(op, Id(Pow(qubit, n - 2)))),
                         perm))

(*************************************************************************)
(* Arrays.  An array is its shape and its entries in row-major order,    *)
(* as numpy keeps them; the operations below are the ones tensor.py      *)
(* calls on Tensor.np.  NoArray is the outcome of a call numpy rejects.  *)
(*************************************************************************)
RECURSIVE Prod(_)
Prod(shape) == IF shape = <<>> THEN 1 ELSE shape[1] * Prod(Tail(shape))

RECURSIVE SumSeq(_)
SumSeq(s) == IF s = <<>> THEN 0 ELSE s[1] + SumSeq(Tail(s))

NoArray == [shape |-> <<0>>, data |-> <<>>]
\* an array of the shape with the entries in row-major order, both as
\* explicit sequences
Array(shape, data) == [shape |-> shape \o <<>>, data |-> data \o <<>>]
Size(a) == Len(a.data)

\* the position in data (from 0) of the entry at index idx (from 0 on each axis)
RECURSIVE Ravel(_, _)
Ravel(idx, shape) ==
    IF idx = <<>> THEN 0
    ELSE idx[1] * Prod(Tail(shape)) + Ravel(Tail(idx), Tail(shape))

\* the index of the entry at position k of data
Unravel(k, shape) ==
    [i \in DOMAIN shape |-> (k \div Prod(SliceFrom(shape, i))) % shape[i]]

At(a, idx) == a.data[Ravel(idx, a.shape) + 1]

\* array.reshape(shape): the same entries read with another shape
\* a reshape that repeats or drops entries to fill the shape
reshape_Resized(a, shape) ==
    IF a = NoArray \/ Size(a) = 0 THEN NoArray
    ELSE Array(shape, [k \in 1 .. Prod(shape) |-> a.data[((k - 1) % Size(a)) + 1]])

reshape(a, shape) ==
    IF a = NoArray \/ Size(a) # Prod(shape) THEN NoArray ELSE Array(shape, a.data)

\* numpy.eye(n)
eye(n) ==
    Array(<<n, n>>, [k \in 1 .. n * n |-> IF (k - 1) \div n = (k - 1) % n THEN 1 ELSE 0])

\* numpy.zeros(shape)
zeros(shape) == Array(shape, [k \in 1 .. Prod(shape) |-> 0])

\* array.transpose(order): axis i of the result is axis order[i] of the array
transpose(a, order) ==
    LET shape == [i \in DOMAIN order |-> a.shape[order[i] + 1]]
        pos(i) == CHOOSE j \in DOMAIN order : order[j] = i - 1
        src(k) == LET idx == Unravel(k, shape)
                  IN  [i \in DOMAIN a.shape |-> idx[pos(i)]]
    IN  Array(shape, [k \in 1 .. Size(a) |-> At(a, src(k - 1))])

\* numpy.moveaxis(array, source, destination): the axes not in source keep
\* their order, and each source axis is inserted at its destination, lowest
\* destination first
RECURSIVE MoveOrder(_, _, _, _)
MoveOrder(order, d, source, destination) ==
    IF d > Len(order) + Len(source) THEN order
    ELSE IF \E k \in DOMAIN destination : destination[k] = d
    THEN LET k == CHOOSE k \in DOMAIN destination : destination[k] = d
         IN  MoveOrder(Slice(order, 0, d) \o <<source[k]>> \o SliceFrom(order, d),
                       d + 1, source, destination)
    ELSE MoveOrder(order, d + 1, source, destination)

moveaxis(a, source, destination) ==
    LET n == Len(a.shape)
        ok == /\ a # NoArray
              /\ Len(source) = Len(destination)
              /\ \A k \in DOMAIN source :
                    source[k] \in 0 .. n - 1 /\ destination[k] \in 0 .. n - 1
              /\ \A k, l \in DOMAIN source :
                    k # l => source[k] # source[l] /\ destination[k] # destination[l]
        keep == SelectSeq(RangeList(n), LAMBDA i : \A k \in DOMAIN source : source[k] # i)
    IN  IF ~ok THEN NoArray
        ELSE transpose(a, MoveOrder(keep, 0, source, destination))

\* numpy.tensordot(a, b, (axes_a, axes_b)): the entries of a and b multiplied
\* and summed over the paired axes; the free axes of a, then those of b
tensordot(a, b, axes_a, axes_b) ==
    LET na == Len(a.shape)
        nb == Len(b.shape)
        ok == /\ a # NoArray /\ b # NoArray
              /\ Len(axes_a) = Len(axes_b)
              /\ \A k \in DOMAIN axes_a :
                    /\ axes_a[k] \in 0 .. na - 1
                    /\ axes_b[k] \in 0 .. nb - 1
                    /\ a.shape[axes_a[k] + 1] = b.shape[axes_b[k] + 1]
        free_a == SelectSeq(RangeList(na), LAMBDA i : \A k \in DOMAIN axes_a : axes_a[k] # i)
        free_b == SelectSeq(RangeList(nb), LAMBDA i : \A k \in DOMAIN axes_b : axes_b[k] # i)
        shape == [i \in DOMAIN free_a |-> a.shape[free_a[i] + 1]]
                 \o [i \in DOMAIN free_b |-> b.shape[free_b[i] + 1]]
        summed == [k \in DOMAIN axes_a |-> a.shape[axes_a[k] + 1]]
        idx_a(o, c) ==
            [i \in 1 .. na |->
                IF \E k \in DOMAIN axes_a : axes_a[k] = i - 1
                THEN c[CHOOSE k \in DOMAIN axes_a : axes_a[k] = i - 1]
                ELSE o[CHOOSE j \in DOMAIN free_a : free_a[j] = i - 1]]
        idx_b(o, c) ==
            [i \in 1 .. nb |->
                IF \E k \in DOMAIN axes_b : axes_b[k] = i - 1
                THEN c[CHOOSE k \in DOMAIN axes_b : axes_b[k] = i - 1]
                ELSE o[Len(free_a) + (CHOOSE j \in DOMAIN free_b : free_b[j] = i - 1)]]
        entry(o) ==
            SumSeq([m \in 1 .. Prod(summed) |->
                LET c == Unravel(m - 1, summed)
                IN  At(a, idx_a(o, c)) * At(b, idx_b(o, c))])
    IN  IF ~ok THEN NoArray
        ELSE Array(shape, [k \in 1 .. Prod(shape) |-> entry(Unravel(k - 1, shape))])

\* numpy.tensordot(a, b, n): the last n axes of a against the first n of b
tensordot_n(a, b, n) ==
    IF a = NoArray \/ b = NoArray \/ n > Len(a.shape) \/ n > Len(b.shape) THEN NoArray
    ELSE tensordot(a, b, [k \in 1 .. n |-> Len(a.shape) - n + k - 1],
                   [k \in 1 .. n |-> k - 1])

\* a * b where one of the two has no axis: every entry times the scalar
multiply(a, b) ==
    IF a = NoArray \/ b = NoArray THEN NoArray
    ELSE IF a.shape = <<>> THEN Array(b.shape, [k \in DOMAIN b.data |-> a.data[1] * b.data[k]])
    ELSE IF b.shape = <<>> THEN Array(a.shape, [k \in DOMAIN a.data |-> a.data[k] * b.data[1]])
    ELSE NoArray

\* a + b, for arrays of one shape
add(a, b) ==
    IF a = NoArray \/ b = NoArray \/ a.shape # b.shape THEN NoArray
    ELSE Array(a.shape, [k \in DOMAIN a.data |-> a.data[k] + b.data[k]])

(*************************************************************************)
(* Dim and Tensor: tensor.py lines 33-80 and 195-361.  A value is a      *)
(* Tensor, the Python int 0 that sum() starts from, or the exception a   *)
(* call raised.                                                          *)
(*************************************************************************)
\* Dim(*dims): the components equal to 1 are dropped (line 46)
Dim(dims) == SelectSeq(dims, LAMBDA x : x # 1)

\* Ob(x) for a Python int, float or str x: name is the number, or for a
\* str the length of the text, which no check of Dim reads
Ob(type, name) == [type |-> type, name |-> name]

\* x.name != 1, which a float equal to 1 fails as the int 1 does
NotOne(x) == ~(x.type \in {"int", "float"} /\ x.name = 1)

\* the outcome of Dim(*dims): what was raised, and the dims held
DimRaised(kind) == [raised |-> kind, value |-> <<>>]

\* the checks of lines 47-51 from component i on
RECURSIVE Dim_check(_, _)
Dim_check(dims, i) ==
    IF i > Len(dims) THEN "None"
    ELSE IF dims[i].type # "int" THEN "TypeError"
    ELSE IF dims[i].name < 1 THEN "ValueError"
    ELSE Dim_check(dims, i + 1)

\* a constructor that checks its components and drops none
Dim_init_Unfiltered(dims) ==
    LET raised == Dim_check(dims, 1)
    IN  IF raised # "None" THEN DimRaised(raised)
        ELSE [raised |-> "None", value |-> [i \in DOMAIN dims |-> dims[i].name]]

\* Dim.__init__ on components of any Python type
Dim_init(dims) ==
    LET kept == SelectSeq(dims, NotOne)
        raised == Dim_check(kept, 1)
    IN  IF raised # "None" THEN DimRaised(raised)
        ELSE [raised |-> "None", value |-> [i \in DOMAIN kept |-> kept[i].name]]

\* self[::-1]
Reversed(self) == [i \in DOMAIN self |-> self[Len(self) + 1 - i]]

\* Dim.l and Dim.r: Dim(*self[::-1])
Dim_l(self) == Dim_init([i \in DOMAIN self |-> Ob("int", Reversed(self)[i])])
Dim_r(self) == Dim_init([i \in DOMAIN self |-> Ob("int", Reversed(self)[i])])

TensorError(kind) ==
    [type |-> "Tensor", raised |-> kind, dom |-> <<>>, cod |-> <<>>, array |-> NoArray]

PyInt(n) ==
    [type |-> "int", raised |-> "None", dom |-> <<>>, cod |-> <<>>,
     array |-> Array(<<>>, <<n>>)]

\* Tensor(dom, cod, array): the array reshaped to dom @ cod, which numpy
\* refuses when the number of entries differs
Tensor(dom, cod, array) ==
    LET a == reshape(array, dom \o cod)
    IN  IF a = NoArray THEN TensorError("ValueError")
        ELSE [type |-> "Tensor", raised |-> "None", dom |-> dom, cod |-> cod, array |-> a]

\* Tensor.id(dom)
Tensor_id(dom) == Tensor(dom, dom, eye(Prod(dom)))

\* Tensor.zeros(dom, cod)
Tensor_zeros(dom, cod) == Tensor(dom, cod, zeros(dom \o cod))

\* Tensor.__eq__(self, other)
Tensor_eq(self, other) ==
    IF other.type # "Tensor"
    THEN \A k \in DOMAIN self.array.data : self.array.data[k] = other.array.data[1]
    ELSE /\ <<self.dom, self.cod>> = <<other.dom, other.cod>>
         /\ self.array.data = other.array.data

\* other == 0, as Tensor.__add__ asks it of its operand
EqualsZero(other) == IF other.type = "int" THEN other.array.data[1] = 0
                     ELSE Tensor_eq(other, PyInt(0))

\* Tensor.__add__(self, other)
Tensor_add(self, other) ==
    IF self.raised # "None" THEN self
    ELSE IF other.raised # "None" THEN other
    ELSE IF EqualsZero(other) THEN self
    ELSE IF other.type # "Tensor" THEN TensorError("TypeError")
    ELSE IF <<self.dom, self.cod>> # <<other.dom, other.cod>> THEN TensorError("AxiomError")
    ELSE Tensor(self.dom, self.cod, add(self.array, other.array))

\* left + right of Python: int.__add__ knows no Tensor, so the Tensor's
\* __radd__ answers, which is __add__
PyAdd(left, right) ==
    IF left.raised # "None" THEN left
    ELSE IF right.raised # "None" THEN right
    ELSE IF left.type = "Tensor" THEN Tensor_add(left, right)
    ELSE IF right.type = "Tensor" THEN Tensor_add(right, left)
    ELSE PyInt(left.array.data[1] + right.array.data[1])

\* a composition that contracts the first axes of both arrays
Tensor_then_FirstAxes(self, other) ==
    IF self.raised # "None" THEN self
    ELSE IF other.raised # "None" THEN other
    ELSE IF self.cod # other.dom THEN TensorError("AxiomError")
    ELSE Tensor(self.dom, other.cod,
                IF self.array.shape # <<>> /\ other.array.shape # <<>>
                THEN tensordot(self.array, other.array,
                               [k \in 1 .. Len(self.cod) |-> k - 1],
                               [k \in 1 .. Len(self.cod) |-> k - 1])
                ELSE multiply(self.array, other.array))

\* composition that compares the types before looking at what other is
Tensor_then_CodFirst(self, other) ==
    IF self.raised # "None" THEN self
    ELSE IF other.raised # "None" THEN other
    ELSE IF self.cod # other.dom THEN TensorError("AxiomError")
    ELSE IF other.type # "Tensor" THEN TensorError("TypeError")
    ELSE Tensor(self.dom, other.cod,
                IF self.array.shape # <<>> /\ other.array.shape # <<>>
                THEN tensordot_n(self.array, other.array, Len(self.cod))
                ELSE multiply(self.array, other.array))

\* Tensor.then(self, other), for one other
Tensor_then(self, other) ==
    IF self.raised # "None" THEN self
    ELSE IF other.raised # "None" THEN other
    ELSE IF other.type # "Tensor" THEN TensorError("TypeError")
    ELSE IF self.cod # other.dom THEN TensorError("AxiomError")
    ELSE Tensor(self.dom, other.cod,
                IF self.array.shape # <<>> /\ other.array.shape # <<>>
                THEN tensordot_n(self.array, other.array, Len(self.cod))
                ELSE multiply(self.array, other.array))

\* the target axes of Tensor.tensor (lines 273-276)
TensorTarget(self, other) ==
    [k \in 1 .. Len(self.dom \o other.dom \o self.cod \o other.cod) |->
        LET i == k - 1
        IN  IF i < Len(self.dom) \/ i >= Len(self.dom \o self.cod \o other.dom) THEN i
            ELSE IF i >= Len(self.dom \o self.cod) THEN i - Len(self.cod)
            ELSE i + Len(other.dom)]

\* a product that leaves the axes as the outer product has them
Tensor_tensor_Unmoved(self, other) ==
    IF self.raised # "None" THEN self
    ELSE IF other.raised # "None" THEN other
    ELSE Tensor(self.dom \o other.dom, self.cod \o other.cod,
                IF self.array.shape # <<>> /\ other.array.shape # <<>>
                THEN tensordot_n(self.array, other.array, 0)
                ELSE multiply(self.array, other.array))

\* Tensor.tensor(self, other), for one other
Tensor_tensor(self, other) ==
    IF self.raised # "None" THEN self
    ELSE IF other.raised # "None" THEN other
    ELSE IF other.type # "Tensor" THEN TensorError("TypeError")
    ELSE LET dom == self.dom \o other.dom
             cod == self.cod \o other.cod
             array == IF self.array.shape # <<>> /\ other.array.shape # <<>>
                      THEN tensordot_n(self.array, other.array, 0)
                      ELSE multiply(self.array, other.array)
         IN  Tensor(dom, cod,
                    moveaxis(array, RangeList(Len(dom \o cod)), TensorTarget(self, other)))

\* Tensor.swap(left, right)
Tensor_swap(left, right) ==
    LET n == Len(left \o right)
        source == [k \in 1 .. n |-> n + k - 1]
        target == [k \in 1 .. n |->
                     IF source[k] < Len(left \o right \o left)
                     THEN source[k] + Len(right) ELSE source[k] - Len(left)]
    IN  Tensor(left \o right, right \o left,
               moveaxis(Tensor_id(left \o right).array, source, target))

(*************************************************************************)
(* Tensors of complex entries.  numpy keeps a complex array as the real  *)
(* and the imaginary part of each entry; here a complex tensor is the    *)
(* pair of the Tensor of its real parts and the Tensor of its imaginary  *)
(* parts, both of one dom and cod.                                       *)
(*************************************************************************)
Complex(re, im) == [re |-> re, im |-> im]

\* -a
negative(a) ==
    IF a = NoArray THEN NoArray
    ELSE Array(a.shape, [k \in DOMAIN a.data |-> 0 - a.data[k]])

\* numpy.conjugate(array): the imaginary parts change sign
conjugate(array) == Complex(array.re, negative(array.im))

\* the target axes of Tensor.dagger (lines 282-283)
DaggerTarget(self) ==
    [k \in 1 .. Len(self.dom \o self.cod) |->
        IF k - 1 < Len(self.dom) THEN k - 1 + Len(self.cod) ELSE k - 1 - Len(self.dom)]

\* a dagger that moves the axes and leaves the entries as they are
Tensor_dagger_Unconjugated(self) ==
    IF self.re.raised # "None" THEN self
    ELSE LET source == RangeList(Len(self.re.dom \o self.re.cod))
         IN  Complex(Tensor(self.re.cod, self.re.dom,
                            moveaxis(self.re.array, source, DaggerTarget(self.re))),
                     Tensor(self.re.cod, self.re.dom,
                            moveaxis(self.im.array, source, DaggerTarget(self.re))))

\* Tensor.dagger(self)
Tensor_dagger(self) ==
    IF self.re.raised # "None" THEN self
    ELSE LET source == RangeList(Len(self.re.dom \o self.re.cod))
             array == conjugate(Complex(
                        moveaxis(self.re.array, source, DaggerTarget(self.re)),
                        moveaxis(self.im.array, source, DaggerTarget(self.re))))
         IN  Complex(Tensor(self.re.cod, self.re.dom, array.re),
                     Tensor(self.re.cod, self.re.dom, array.im))

\* Tensor.then(self, other) on complex entries: the product of two
\* entries has real part re * re - im * im and imaginary part
\* re * im + im * re
Complex_then(self, other) ==
    LET rr == Tensor_then(self.re, other.re)
        ii == Tensor_then(self.im, other.im)
        ri == Tensor_then(self.re, other.im)
        ir == Tensor_then(self.im, other.re)
    IN  IF rr.raised # "None" THEN Complex(rr, rr)
        ELSE Complex(Tensor(rr.dom, rr.cod, add(rr.array, negative(ii.array))),
                     Tensor(rr.dom, rr.cod, add(ri.array, ir.array)))

(*************************************************************************)
(* Boxes of tensor diagrams: tensor.py lines 703-776.                    *)
(*************************************************************************)
\* tensor.Box(name, dom, cod, data), data the entries in row-major order
TensorBox(name, dom, cod, data) ==
    [kind |-> "Box", name |-> name, dom |-> dom, cod |-> cod, data |-> data,
     shape |-> <<Len(data)>>, is_dagger |-> FALSE]

\* a Box whose data is a nested list: its entries in row-major order and
\* the shape numpy reads off the nesting
ShapedBox(name, dom, cod, array) ==
    [TensorBox(name, dom, cod, array.data) EXCEPT !.shape = array.shape]

\* Spider(n_legs_in, n_legs_out, dim), dim of one atom: ones where all the
\* indices agree (lines 772-774)
Spider(n_legs_in, n_legs_out, dim) ==
    LET dom == [k \in 1 .. n_legs_in |-> dim[1]]
        cod == [k \in 1 .. n_legs_out |-> dim[1]]
        shape == dom \o cod
    IN  [kind |-> "Spider", name |-> "Spider", dom |-> dom, cod |-> cod,
         data |-> [k \in 1 .. Prod(shape) |->
                    LET idx == Unravel(k - 1, shape)
                    IN  IF \A i, j \in DOMAIN idx : idx[i] = idx[j] THEN 1 ELSE 0],
         shape |-> <<Prod(shape)>>, is_dagger |-> FALSE]

\* Box.array: the data reshaped to dom @ cod, or the data as it is when
\* numpy refuses
BoxArray(box) ==
    LET data == Array(box.shape, box.data)
        shaped == reshape(data, box.dom \o box.cod)
    IN  IF shaped = NoArray THEN data ELSE shaped

(*************************************************************************)
(* Functor.__call__: tensor.py lines 423-483, for the functor of         *)
(* Diagram.eval, whose ob sends every Dim to itself and whose ar sends   *)
(* every box to its array (line 528).                                    *)
(*************************************************************************)
\* self(ty), lines 429-439
F_ob(ty) == Dim(ty)

\* dim(scan), lines 457-458
dim(scan) == Len(F_ob(scan))

\* self(box), lines 444-453, for a box that is no dagger and has z = 0
FunctorBox(box) == Tensor(F_ob(box.dom), F_ob(box.cod), BoxArray(box))

\* a Swap layer that leaves the accumulator as it is
ScanSwap_Unmoved(dom, scan, array, box, off) == array

\* lines 461-471: a swap moves two axes of the array
ScanSwap(dom, scan, array, box, off) ==
    LET left == Slice(box.dom, 0, 1)
        right == Slice(box.dom, 1, 2)
        base == dim(dom \o Slice(scan, 0, off))
        n == dim(dom \o Slice(scan, 0, off) \o box.dom) - base
        source == [k \in 1 .. n |-> base + k - 1]
        target == [k \in 1 .. n |->
                     IF source[k] < base + dim(left)
                     THEN source[k] + dim(right) ELSE source[k] - dim(left)]
    IN  moveaxis(array, source, target)

\* a box branch that leaves the new axes at the end of the array
ScanBox_Unmoved(dom, scan, array, box, off) ==
    LET left == dim(Slice(scan, 0, off))
        source == [k \in 1 .. dim(box.dom) |-> dim(dom) + left + k - 1]
        target == [k \in 1 .. dim(box.dom) |-> k - 1]
    IN  tensordot(array, FunctorBox(box).array, source, target)

\* lines 472-481: a box is contracted with the axes at its offset, and its
\* output axes are moved there
ScanBox(dom, scan, array, box, off) ==
    LET left == dim(Slice(scan, 0, off))
        source == [k \in 1 .. dim(box.dom) |-> dim(dom) + left + k - 1]
        target == [k \in 1 .. dim(box.dom) |-> k - 1]
        dotted == tensordot(array, FunctorBox(box).array, source, target)
        n == Len(dotted.shape)
        source2 == [k \in 1 .. dim(box.cod) |-> n - dim(box.cod) + k - 1]
        target2 == [k \in 1 .. dim(box.cod) |-> dim(dom) + left + k - 1]
    IN  IF dotted = NoArray THEN NoArray ELSE moveaxis(dotted, source2, target2)

\* the loop of lines 460-482 over the layers left
RECURSIVE FunctorScan(_, _, _, _)
FunctorScan(layers, dom, scan, array) ==
    IF layers = <<>> THEN array
    ELSE LET box == layers[1].box
             off == Len(layers[1].left)
             next == Slice(scan, 0, off) \o box.cod
                        \o SliceFrom(scan, off + Len(box.dom))
         IN  IF box.kind = "Swap"
             THEN FunctorScan(Tail(layers), dom, next, ScanSwap(dom, scan, array, box, off))
             ELSE FunctorScan(Tail(layers), dom, next, ScanBox(dom, scan, array, box, off))

\* the same loop, keeping scan and array as they are before the first layer
\* and after each layer
RECURSIVE FunctorTrace(_, _, _, _)
FunctorTrace(layers, dom, scan, array) ==
    <<[scan |-> scan, array |-> array]>> \o
    (IF layers = <<>> THEN <<>>
     ELSE LET box == layers[1].box
              off == Len(layers[1].left)
              next == Slice(scan, 0, off) \o box.cod
                         \o SliceFrom(scan, off + Len(box.dom))
          IN  IF box.kind = "Swap"
              THEN FunctorTrace(Tail(layers), dom, next,
                                ScanSwap(dom, scan, array, box, off))
              ELSE FunctorTrace(Tail(layers), dom, next,
                                ScanBox(dom, scan, array, box, off)))

\* self(diagram), for a diagram of layers
Functor(diagram) ==
    Tensor(F_ob(diagram.dom), F_ob(diagram.cod),
           FunctorScan(diagram.inside, diagram.dom, diagram.dom,
                       Tensor_id(F_ob(diagram.dom)).array))

(*************************************************************************)
(* Diagram.to_tn: tensor.py lines 532-589.  A network is the list of its *)
(* nodes' tensors, the list of connected pairs of edge ends, and the     *)
(* ends still dangling; an end is <<node, axis>>, nodes from 1 and axes  *)
(* from 0.                                                               *)
(*************************************************************************)
\* tn.CopyNode(rank, dimension): 1 where all the indices agree
CopyNode(rank, dimension) ==
    LET shape == [k \in 1 .. rank |-> dimension]
    IN  Array(shape, [k \in 1 .. Prod(shape) |->
                        LET idx == Unravel(k - 1, shape)
                        IN  IF \A i, j \in DOMAIN idx : idx[i] = idx[j] THEN 1 ELSE 0])

\* edge.dimension
EdgeDimension(nodes, end) == nodes[end[1]].shape[end[2] + 1]

NoNetwork(kind) == [raised |-> kind, nodes |-> <<>>, conns |-> <<>>, inputs |-> <<>>, scan |-> <<>>]

\* lines 562-565: one copy node of two legs for each wire of dom
InputNodes(dom) ==
    [raised |-> "None",
     nodes |-> [i \in DOMAIN dom |-> CopyNode(2, dom[i])] \o <<>>,
     conns |-> <<>>,
     inputs |-> [i \in DOMAIN dom |-> <<i, 0>>],
     scan |-> [i \in DOMAIN dom |-> <<i, 1>>]]

\* lines 585-588: the node is connected to the edges at the offset, and
\* its output edges take their place in scan; tn.connect refuses two
\* edges of different dimension
AddNode(net, node, n_in, offset) ==
    LET nodes == Append(net.nodes, node)
        n == Len(nodes)
        pairs == [i \in 1 .. n_in |-> <<net.scan[offset + i], <<n, i - 1>>>>]
    IN  IF \E i \in 1 .. n_in :
              EdgeDimension(nodes, pairs[i][1]) # EdgeDimension(nodes, pairs[i][2])
        THEN NoNetwork("ValueError")
        ELSE [net EXCEPT
                !.nodes = nodes,
                !.conns = net.conns \o pairs,
                !.scan = Slice(net.scan, 0, offset)
                            \o [k \in 1 .. Len(node.shape) - n_in |-> <<n, n_in + k - 1>>]
                            \o SliceFrom(net.scan, offset + n_in)]

\* lines 579-581: the copy node of a spider takes the dimension of the
\* edge at the offset, and scan[offset] raises when there is none
SpiderNode(net, box, offset) ==
    IF offset >= Len(net.scan) THEN NoNetwork("IndexError")
    ELSE AddNode(net, CopyNode(Len(box.dom) + Len(box.cod),
                               EdgeDimension(net.nodes, net.scan[offset + 1])),
                 Len(box.dom), offset)

\* a loop body whose cup connects its two edges and leaves them in scan
ToTnStep_CupKept(net, box, offset) ==
    IF net.raised # "None" THEN net
    ELSE IF box.kind = "Swap"
    THEN [net EXCEPT !.scan = [net.scan EXCEPT ![offset + 1] = net.scan[offset + 2],
                                                ![offset + 2] = net.scan[offset + 1]]]
    ELSE IF box.kind = "Spider" /\ <<Len(box.dom), Len(box.cod)>> = <<1, 1>>
    THEN net
    ELSE IF box.kind = "Spider" /\ <<Len(box.dom), Len(box.cod)>> = <<2, 0>>
    THEN IF EdgeDimension(net.nodes, net.scan[offset + 1])
                # EdgeDimension(net.nodes, net.scan[offset + 2])
         THEN NoNetwork("ValueError")
         ELSE [net EXCEPT
                !.conns = Append(net.conns, <<net.scan[offset + 1], net.scan[offset + 2]>>)]
    ELSE IF box.kind = "Spider"
    THEN SpiderNode(net, box, offset)
    ELSE IF FunctorBox(box).raised # "None" THEN NoNetwork(FunctorBox(box).raised)
    ELSE AddNode(net, FunctorBox(box).array, Len(box.dom), offset)

\* the body of the loop of lines 566-588
ToTnStep(net, box, offset) ==
    IF net.raised # "None" THEN net
    ELSE IF box.kind = "Swap"
    THEN [net EXCEPT !.scan = [net.scan EXCEPT ![offset + 1] = net.scan[offset + 2],
                                                ![offset + 2] = net.scan[offset + 1]]]
    ELSE IF box.kind = "Spider" /\ <<Len(box.dom), Len(box.cod)>> = <<1, 1>>
    THEN net
    ELSE IF box.kind = "Spider" /\ <<Len(box.dom), Len(box.cod)>> = <<2, 0>>
    THEN IF EdgeDimension(net.nodes, net.scan[offset + 1])
                # EdgeDimension(net.nodes, net.scan[offset + 2])
         THEN NoNetwork("ValueError")
         ELSE [net EXCEPT
                !.conns = Append(net.conns, <<net.scan[offset + 1], net.scan[offset + 2]>>),
                !.scan = Slice(net.scan, 0, offset) \o SliceFrom(net.scan, offset + 2)]
    ELSE IF box.kind = "Spider"
    THEN SpiderNode(net, box, offset)
    ELSE IF FunctorBox(box).raised # "None" THEN NoNetwork(FunctorBox(box).raised)
    ELSE AddNode(net, FunctorBox(box).array, Len(box.dom), offset)

RECURSIVE ToTnLoop(_, _)
ToTnLoop(net, layers) ==
    IF layers = <<>> THEN net
    ELSE ToTnLoop(ToTnStep(net, layers[1].box, Len(layers[1].left)), Tail(layers))

\* the network before the first box and after each box of the loop
RECURSIVE ToTnTrace(_, _)
ToTnTrace(net, layers) ==
    IF layers = <<>> THEN <<net>>
    ELSE <<net>> \o ToTnTrace(ToTnStep(net, layers[1].box, Len(layers[1].left)),
                              Tail(layers))

\* self.to_tn(): the nodes and the output edge order, inputs then scan
to_tn(self) ==
    LET net == ToTnLoop(InputNodes(self.dom), self.inside)
    IN  [raised |-> net.raised, nodes |-> net.nodes, conns |-> net.conns,
         output_edge_order |-> net.inputs \o net.scan]

\* contractor(nodes, output_edge_order).tensor: the entry at an index of
\* the output edges is the sum, over the indices of the connected edges,
\* of the product of the nodes' entries
contractor(nodes, conns, output_edge_order) ==
    LET shape == [k \in DOMAIN output_edge_order |->
                    EdgeDimension(nodes, output_edge_order[k])]
        inner == [c \in DOMAIN conns |-> EdgeDimension(nodes, conns[c][1])]
        IndexOf(end, oidx, cidx) ==
            IF \E k \in DOMAIN output_edge_order : output_edge_order[k] = end
            THEN oidx[CHOOSE k \in DOMAIN output_edge_order : output_edge_order[k] = end]
            ELSE cidx[CHOOSE c \in DOMAIN conns : end \in {conns[c][1], conns[c][2]}]
        Term(oidx, cidx) ==
            Prod([n \in DOMAIN nodes |->
                    At(nodes[n], [a \in DOMAIN nodes[n].shape |->
                                    IndexOf(<<n, a - 1>>, oidx, cidx)])])
    IN  Array(shape,
              [p \in 1 .. Prod(shape) |->
                 SumSeq([q \in 1 .. Prod(inner) |->
                           Term(Unravel(p - 1, shape), Unravel(q - 1, inner))])])

\* Diagram.eval(self, contractor), under the backend np (lines 522-530)
Diagram_eval(self, with_contractor, np) ==
    IF ~with_contractor /\ np # "NumPyBackend" THEN TensorError("Exception")
    ELSE IF ~with_contractor THEN Functor(self)
    ELSE LET net == to_tn(self)
         IN  IF net.raised # "None" THEN TensorError(net.raised)
             ELSE Tensor(self.dom, self.cod,
                         contractor(net.nodes, net.conns, net.output_edge_order))

(*************************************************************************)
(* Sums of tensor diagrams: tensor.py lines 426-428 and 695-698.         *)
(*************************************************************************)
\* Sum(terms, dom, cod)
Sum(terms, dom, cod) == [terms |-> terms, dom |-> dom, cod |-> cod]

\* sum(iterable, start) of Python: start + t1 + t2 + ...
RECURSIVE PySum(_, _)
PySum(iterable, start) ==
    IF iterable = <<>> THEN start
    ELSE PySum(Tail(iterable), PyAdd(start, iterable[1]))

\* Functor.__call__ on a Sum, lines 426-428
FunctorSum(diagram) ==
    LET dom == F_ob(diagram.dom)
        cod == F_ob(diagram.cod)
    IN  PySum([k \in DOMAIN diagram.terms |-> Functor(diagram.terms[k])] \o <<>>,
              Tensor_zeros(dom, cod))

\* Sum.eval(self), lines 697-698: sum() without a start, so from the int 0
Sum_eval(self, np) ==
    PySum([k \in DOMAIN self.terms |-> Diagram_eval(self.terms[k], FALSE, np)] \o <<>>,
          PyInt(0))

(*************************************************************************)
(* Diagram.grad: tensor.py lines 624-631, with the class attributes set  *)
(* by line 849, `Diagram.sum, Diagram.bubble_factory = Bubble, Sum`.     *)
(*************************************************************************)
\* line 849: the classes the two attributes are bound to
Diagram_sum == "Bubble"
Diagram_bubble_factory == "Sum"

\* Bubble.__init__(self, inside, func=..., **params) takes at most two
\* positional arguments (line 822)
Bubble(args) ==
    IF Len(args) > 2 THEN Raised("TypeError")
    ELSE Ok([kind |-> "Bubble", inside |-> args[1]])

\* cls(terms, dom, cod) for the class an attribute is bound to
Construct(cls, terms, dom, cod) ==
    IF cls = "Sum" THEN Ok(Sum(terms, dom, cod)) ELSE Bubble(<<terms, dom, cod>>)

\* the symbols in the data of the boxes: the boxes here hold numbers only
free_symbols(self) == {}

\* Diagram.grad(self, var) for var not in self.free_symbols (lines 626-627)
Diagram_grad(self, var) == Construct(Diagram_sum, <<>>, self.dom, self.cod)

(*************************************************************************)
(* Quantum gates: quantum/gates.py lines 55-80 and 401-429.  A gate is a *)
(* box from n qubits to n qubits with a complex array of shape           *)
(* 2 * n_qubits * (2, ); _dagger is "True", "False" or "None".  The      *)
(* functor evaluates a box by lines 444-453 of tensor.py, every qubit    *)
(* of dimension 2.                                                       *)
(*************************************************************************)
\* 2 * n_qubits * (2, ) or (1, )
GateShape(n_qubits) == IF n_qubits = 0 THEN <<1>> ELSE Pow(<<2>>, 2 * n_qubits)

\* QuantumGate(name, n_qubits, array, _dagger=_dagger)
QuantumGate(name, n_qubits, array, _dagger) ==
    [kind |-> "QuantumGate", name |-> name,
     dom |-> Pow(qubit, n_qubits), cod |-> Pow(qubit, n_qubits),
     array |-> Complex(reshape(array.re, GateShape(n_qubits)),
                       reshape(array.im, GateShape(n_qubits))),
     _dagger |-> _dagger]

\* None if self._dagger is None else not self._dagger
NotDagger(_dagger) ==
    IF _dagger = "None" THEN "None" ELSE IF _dagger = "True" THEN "False" ELSE "True"

\* QuantumGate.dagger
QuantumGate_dagger(self) ==
    QuantumGate(self.name, Len(self.dom), self.array, NotDagger(self._dagger))

\* lines 417-419: the 4 by 4 array with the identity in its upper left block
\* and the array of the controlled gate, 2 by 2, in its lower right block
ControlledArray(controlled) ==
    LET entry(part, k) ==
            LET r == (k - 1) \div 4
                c == (k - 1) % 4
            IN  IF r < 2 /\ c < 2 THEN (IF r = c /\ part = "re" THEN 1 ELSE 0)
                ELSE IF r >= 2 /\ c >= 2
                THEN (IF part = "re" THEN At(controlled.array.re, <<r - 2, c - 2>>)
                      ELSE At(controlled.array.im, <<r - 2, c - 2>>))
                ELSE 0
    IN  Complex(Array(<<4, 4>>, [k \in 1 .. 16 |-> entry("re", k)]),
                Array(<<4, 4>>, [k \in 1 .. 16 |-> entry("im", k)]))

\* Controlled(controlled, distance), controlled a gate on one qubit
Controlled(controlled, distance) ==
    IF controlled.kind \notin {"QuantumGate", "Controlled"} THEN Raised("TypeError")
    ELSE IF distance # 0 THEN Raised("NotImplementedError")
    ELSE LET n_qubits == Len(controlled.dom)
                            + (IF distance >= 0 THEN distance + 1 ELSE 0 - distance)
             gate == QuantumGate("C" \o controlled.name, n_qubits,
                                 ControlledArray(controlled), "False")
         IN  Ok([kind |-> "Controlled", name |-> gate.name, dom |-> gate.dom,
                 cod |-> gate.cod, array |-> gate.array, _dagger |-> gate._dagger,
                 controlled |-> controlled, distance |-> distance])

\* Controlled.dagger
Controlled_dagger(self) ==
    Controlled(QuantumGate_dagger(self.controlled), self.distance).value

\* box.dagger() by the class of the box
Gate_dagger(self) ==
    IF self.kind = "Controlled" THEN Controlled_dagger(self) ELSE QuantumGate_dagger(self)

\* lines 444-453 of tensor.py on a gate: the tensor of the array, or for a
\* box with is_dagger set the dagger of the evaluation of its dagger
RECURSIVE FunctorGate(_)
FunctorGate(box) ==
    IF box._dagger = "True" THEN Tensor_dagger(FunctorGate(Gate_dagger(box)))
    ELSE LET dom == Pow(<<2>>, Len(box.dom))
             cod == Pow(<<2>>, Len(box.cod))
         IN  Complex(Tensor(dom, cod, box.array.re), Tensor(dom, cod, box.array.im))

(*************************************************************************)
(* The backend stack: tensor.py lines 116-193.                           *)
(*************************************************************************)
\* the callers of the backend API; SpecBackend runs the first one alone
Callers == {1, 2}
MainCaller == {1}

BACKENDS ==
    ("np" :> "NumPyBackend") @@ ("numpy" :> "NumPyBackend") @@
    ("jax" :> "JAXBackend") @@ ("jax.numpy" :> "JAXBackend") @@
    ("pytorch" :> "PyTorchBackend") @@ ("torch" :> "PyTorchBackend") @@
    ("tensorflow" :> "TensorFlowBackend")

\* the names the callers pass: valid ones and one that is no key of BACKENDS
BackendNames == {"numpy", "np", "jax", "cupy"}

\* get_backend(name): the instance of the named backend class, made on first
\* use, or ValueError
get_backend(name) ==
    IF name \in DOMAIN BACKENDS
    THEN [raised |-> "None", backend |-> BACKENDS[name]]
    ELSE [raised |-> "ValueError", backend |-> "None"]

\* Tensor.get_backend(): the top of the stack, IndexError on an empty stack
Tensor_get_backend(stack) ==
    IF Len(stack) = 0
    THEN [raised |-> "IndexError", backend |-> "None"]
    ELSE [raised |-> "None", backend |-> stack[Len(stack)]]

\* list.pop(): without the last element
Pop(stack) == SubSeq(stack, 1, Len(stack) - 1)

\* a scope that loses its exit: the pop runs only when the body ends normally
backend_exit_NoFinally(stack, exc) == IF exc THEN stack ELSE Pop(stack)

\* the exit of Tensor.backend: `finally: cls._backend_stack.pop()`, on every
\* way out of the body
backend_exit(stack, exc) == Pop(stack)

NoRet ==
    [op |-> "none", caller |-> 0, raised |-> "None", backend |-> "None",
     saved |-> <<>>, proper |-> FALSE, exc |-> FALSE, base |-> <<>>, last |-> FALSE]

\* every open scope stops being a properly nested one; the stack it was
\* entered on is then of no use and is dropped from the record
Spoil(ss) == [i \in DOMAIN ss |-> [ss[i] EXCEPT !.proper = FALSE, !.saved = <<>>]]

\* the index in scopes of the innermost open scope of caller c, 0 if none
Innermost(c) ==
    LET mine == {i \in DOMAIN scopes : scopes[i].caller = c}
    IN  IF mine = {} THEN 0 ELSE CHOOSE i \in mine : \A j \in mine : j <= i

RemoveAt(s, i) == SubSeq(s, 1, i - 1) \o SubSeq(s, i + 1, Len(s))

\* Tensor.get_backend()
GetBackend(c) ==
    /\ ~raising[c]
    /\ LET r == Tensor_get_backend(backend_stack)
       IN  /\ ret' = [NoRet EXCEPT !.op = "get_backend", !.caller = c,
                                   !.raised = r.raised, !.backend = r.backend]
           /\ raising' = [raising EXCEPT ![c] = (r.raised # "None")]
    /\ UNCHANGED <<backend_stack, INSTANTIATED_BACKENDS, scopes>>
    /\ UNCHANGED <<call, f, g, out>>

\* Tensor.set_backend(value): a push that no exit undoes
SetBackend(c, value) ==
    /\ ~raising[c]
    /\ LET r == get_backend(value)
       IN  IF r.raised # "None"
           THEN /\ raising' = [raising EXCEPT ![c] = TRUE]
                /\ ret' = [NoRet EXCEPT !.op = "set_backend", !.caller = c,
                                        !.raised = r.raised]
                /\ UNCHANGED <<backend_stack, INSTANTIATED_BACKENDS, scopes>>
           ELSE /\ Len(backend_stack) < MaxDepth
                /\ INSTANTIATED_BACKENDS' = INSTANTIATED_BACKENDS \cup {r.backend}
                /\ backend_stack' = Append(backend_stack, r.backend)
                /\ scopes' = Spoil(scopes)
                /\ ret' = [NoRet EXCEPT !.op = "set_backend", !.caller = c,
                                        !.backend = r.backend]
                /\ UNCHANGED raising
    /\ UNCHANGED <<call, f, g, out>>

\* `with Tensor.backend(value):` up to the yield.  set_backend runs inside the
\* try, so when it raises the finally clause pops all the same and the body is
\* never entered.
EnterScope(c, value) ==
    /\ ~raising[c]
    /\ LET r == get_backend(value)
       IN  IF r.raised # "None"
           THEN /\ raising' = [raising EXCEPT ![c] = TRUE]
                /\ IF Len(backend_stack) = 0
                   THEN /\ ret' = [NoRet EXCEPT !.op = "enter", !.caller = c,
                                                !.raised = "IndexError"]
                        /\ UNCHANGED <<backend_stack, scopes>>
                   ELSE /\ backend_stack' = backend_exit(backend_stack, TRUE)
                        /\ scopes' = Spoil(scopes)
                        /\ ret' = [NoRet EXCEPT !.op = "enter", !.caller = c,
                                                !.raised = r.raised]
                /\ UNCHANGED INSTANTIATED_BACKENDS
           ELSE /\ Len(backend_stack) < MaxDepth
                /\ Len(scopes) < MaxDepth
                /\ INSTANTIATED_BACKENDS' = INSTANTIATED_BACKENDS \cup {r.backend}
                /\ backend_stack' = Append(backend_stack, r.backend)
                /\ scopes' = Append(scopes, [caller |-> c, saved |-> backend_stack,
                                             proper |-> TRUE,
                                             base |-> IF scopes = <<>> THEN backend_stack
                                                      ELSE scopes[1].base])
                /\ ret' = [NoRet EXCEPT !.op = "enter", !.caller = c,
                                        !.backend = r.backend]
                /\ UNCHANGED raising
    /\ UNCHANGED <<call, f, g, out>>

\* the body of caller c's innermost scope ends, normally or by the exception
\* that is propagating: the generator runs its finally clause
ExitScope(c) ==
    /\ Innermost(c) # 0
    /\ LET i == Innermost(c)
           lifo == (i = Len(scopes))
           rest == RemoveAt(scopes, i)
       IN  IF Len(backend_stack) = 0
           THEN /\ raising' = [raising EXCEPT ![c] = TRUE]
                /\ scopes' = Spoil(rest)
                /\ ret' = [NoRet EXCEPT !.op = "exit", !.caller = c,
                                        !.raised = "IndexError",
                                        !.saved = IF scopes[i].proper /\ lifo
                                                  THEN scopes[i].saved ELSE <<>>,
                                        !.proper = scopes[i].proper /\ lifo,
                                        !.exc = raising[c],
                                        !.base = scopes[i].base,
                                        !.last = (rest = <<>>)]
                /\ UNCHANGED backend_stack
           ELSE /\ backend_stack' = backend_exit(backend_stack, raising[c])
                /\ scopes' = IF lifo THEN rest ELSE Spoil(rest)
                /\ ret' = [NoRet EXCEPT !.op = "exit", !.caller = c,
                                        !.saved = IF scopes[i].proper /\ lifo
                                                  THEN scopes[i].saved ELSE <<>>,
                                        !.proper = scopes[i].proper /\ lifo,
                                        !.exc = raising[c],
                                        !.base = scopes[i].base,
                                        !.last = (rest = <<>>)]
                /\ UNCHANGED raising
    /\ UNCHANGED INSTANTIATED_BACKENDS
    /\ UNCHANGED <<call, f, g, out>>

\* the body of one of caller c's scopes raises
Raise(c) ==
    /\ ~raising[c]
    /\ Innermost(c) # 0
    /\ raising' = [raising EXCEPT ![c] = TRUE]
    /\ ret' = [NoRet EXCEPT !.op = "raise", !.caller = c]
    /\ UNCHANGED <<backend_stack, INSTANTIATED_BACKENDS, scopes>>
    /\ UNCHANGED <<call, f, g, out>>

\* caller c handles the exception, in a body or at top level
Catch(c) ==
    /\ raising[c]
    /\ raising' = [raising EXCEPT ![c] = FALSE]
    /\ ret' = [NoRet EXCEPT !.op = "catch", !.caller = c]
    /\ UNCHANGED <<backend_stack, INSTANTIATED_BACKENDS, scopes>>
    /\ UNCHANGED <<call, f, g, out>>

NoCall == [op |-> "none"]
NoDiagram == [dom |-> <<>>, cod |-> <<>>, inside |-> <<>>]
NoOut == [op |-> "none"]

\* line 170: the stack starts with the default backend, jax or numpy by
\* config.IMPORT_JAX
InitBackend ==
    /\ \E name \in {"jax", "numpy"} :
        /\ backend_stack = <<get_backend(name).backend>>
        /\ INSTANTIATED_BACKENDS = {get_backend(name).backend}
    /\ scopes = <<>>
    /\ raising = [c \in Callers |-> FALSE]
    /\ ret = NoRet
    /\ call = NoCall
    /\ f = NoDiagram
    /\ g = NoDiagram
    /\ out = NoOut

NextBackend ==
    \/ \E c \in MainCaller : GetBackend(c)
    \/ \E c \in MainCaller, value \in BackendNames : SetBackend(c, value)
    \/ \E c \in MainCaller, value \in BackendNames : EnterScope(c, value)
    \/ \E c \in MainCaller : ExitScope(c)
    \/ \E c \in MainCaller : Raise(c)
    \/ \E c \in MainCaller : Catch(c)

SpecBackend == InitBackend /\ [][NextBackend]_vars

\* two callers on the one stack of the class, each opening and leaving scopes
\* with valid names; their steps interleave in any order
ValidNames == {name \in BackendNames : get_backend(name).raised = "None"}

NextCallers ==
    \/ \E c \in Callers, value \in ValidNames : EnterScope(c, value)
    \/ \E c \in Callers : ExitScope(c)
    \/ \E c \in Callers : Raise(c)
    \/ \E c \in Callers : Catch(c)
    \/ \E c \in Callers : GetBackend(c)

SpecCallers == InitBackend /\ [][NextCallers]_vars

(*************************************************************************)
(* SpecSym: calls of the diagram algebra.  Each action is one call, with *)
(* its arguments drawn from the bounded sets below; call records the     *)
(* arguments and what the call returned.  The algebra keeps no state    *)
(* between calls, so every behaviour is one call.                        *)
(*************************************************************************)
\* the types swapped and the types of the boxes of the naturality square
SwapTypes == TypesOver(Atoms, MaxTyLen)
BoxTypes == TypesOver({"x", "y"}, MaxTyLen)
\* the types permuted, and the lists passed as permutations
PermTypes == TypesOver(Atoms, MaxPerm)
PermLists == UNION {[1 .. k -> (-1) .. MaxPerm] : k \in 0 .. MaxPerm}
Atomic == {<<a>> : a \in Atoms}

\* Diagram.swap(left, right)
CallSwap(left, right) ==
    /\ call = NoCall
    /\ call' = [op |-> "swap", left |-> left, right |-> right,
                result |-> swap(left, right)]
    /\ UNCHANGED <<backend_stack, INSTANTIATED_BACKENDS, scopes, raising, ret>>
    /\ UNCHANGED <<f, g, out>>

\* Diagram.permutation(xs, dom)
CallPermutation(xs, dom) ==
    /\ call = NoCall
    /\ call' = [op |-> "permutation", xs |-> xs, dom |-> dom,
                result |-> permutation(xs, dom)]
    /\ UNCHANGED <<backend_stack, INSTANTIATED_BACKENDS, scopes, raising, ret>>
    /\ UNCHANGED <<f, g, out>>

\* self.permute(xs), self the identity or a box
CallPermute(self, xs) ==
    /\ call = NoCall
    /\ call' = [op |-> "permute", self |-> self, xs |-> xs,
                result |-> permute(self, xs)]
    /\ UNCHANGED <<backend_stack, INSTANTIATED_BACKENDS, scopes, raising, ret>>
    /\ UNCHANGED <<f, g, out>>

\* swap(x, y) >> swap(y, x) == Id(x @ y)
CallInvolution(x, y) ==
    /\ call = NoCall
    /\ LET lhs == then(swap(x, y), swap(y, x))
           rhs == Id(x \o y)
       IN  call' = [op |-> "involution", x |-> x, y |-> y, lhs |-> lhs,
                    rhs |-> rhs, equal |-> Diagram_eq(lhs, rhs)]
    /\ UNCHANGED <<backend_stack, INSTANTIATED_BACKENDS, scopes, raising, ret>>
    /\ UNCHANGED <<f, g, out>>

\* f @ g >> swap(f.cod, g.cod) == swap(f.dom, g.dom) >> g @ f, for boxes
\* f : x -> y and g : z -> w
CallNaturality(x, y, z, w) ==
    /\ call = NoCall
    /\ LET bf == BoxDiagram(Box("f", x, y))
           bg == BoxDiagram(Box("g", z, w))
           lhs == then(tensor(bf, bg), swap(bf.cod, bg.cod))
           rhs == then(swap(bf.dom, bg.dom), tensor(bg, bf))
       IN  call' = [op |-> "naturality", f |-> bf, g |-> bg, lhs |-> lhs,
                    rhs |-> rhs, equal |-> Diagram_eq(lhs, rhs)]
    /\ UNCHANGED <<backend_stack, INSTANTIATED_BACKENDS, scopes, raising, ret>>
    /\ UNCHANGED <<f, g, out>>

\* the two sides of Yang-Baxter on the atoms x, y, z (lines 62-64)
CallYangBaxter(x, y, z) ==
    /\ call = NoCall
    /\ LET sw(a, b) == BoxDiagram(Swap(a, b))
           lhs == then(then(tensor(sw(x, y), Id(z)), tensor(Id(y), sw(x, z))),
                       tensor(sw(y, z), Id(x)))
           rhs == then(then(tensor(Id(x), sw(y, z)), tensor(sw(x, z), Id(y))),
                       tensor(Id(z), sw(x, y)))
       IN  call' = [op |-> "yang_baxter", x |-> x, y |-> y, z |-> z,
                    lhs |-> lhs, rhs |-> rhs, equal |-> Diagram_eq(lhs, rhs)]
    /\ UNCHANGED <<backend_stack, INSTANTIATED_BACKENDS, scopes, raising, ret>>
    /\ UNCHANGED <<f, g, out>>

\* the two hexagons on the atoms x, y, z (lines 33-34)
CallHexagon(x, y, z) ==
    /\ call = NoCall
    /\ LET sw(a, b) == BoxDiagram(Swap(a, b))
           lhs1 == swap(x, y \o z)
           rhs1 == then(tensor(sw(x, y), Id(z)), tensor(Id(y), sw(x, z)))
           lhs2 == swap(x \o y, z)
           rhs2 == then(tensor(Id(x), sw(y, z)), tensor(sw(x, z), Id(y)))
       IN  call' = [op |-> "hexagon", x |-> x, y |-> y, z |-> z,
                    lhs1 |-> lhs1, rhs1 |-> rhs1, equal1 |-> Diagram_eq(lhs1, rhs1),
                    lhs2 |-> lhs2, rhs2 |-> rhs2, equal2 |-> Diagram_eq(lhs2, rhs2)]
    /\ UNCHANGED <<backend_stack, INSTANTIATED_BACKENDS, scopes, raising, ret>>
    /\ UNCHANGED <<f, g, out>>

InitSym ==
    /\ backend_stack = <<get_backend("numpy").backend>>
    /\ INSTANTIATED_BACKENDS = {get_backend("numpy").backend}
    /\ scopes = <<>>
    /\ raising = [c \in Callers |-> FALSE]
    /\ ret = NoRet
    /\ call = NoCall
    /\ f = NoDiagram
    /\ g = NoDiagram
    /\ out = NoOut

NextSym ==
    \/ call = NoCall /\ \E left, right \in SwapTypes : CallSwap(left, right)
    \/ call = NoCall /\ \E dom \in PermTypes, xs \in PermLists :
            CallPermutation(xs, dom)
    \/ call = NoCall /\ \E t \in PermTypes, xs \in PermLists :
            CallPermute(Id(t), xs)
    \/ call = NoCall /\ \E t \in PermTypes, xs \in PermLists :
            CallPermute(BoxDiagram(Box("f", <<"x">>, t)), xs)
    \/ call = NoCall /\ \E x, y \in SwapTypes : CallInvolution(x, y)
    \/ call = NoCall /\ \E x, y, z, w \in BoxTypes : CallNaturality(x, y, z, w)
    \/ call = NoCall /\ \E x, y, z \in Atomic : CallYangBaxter(x, y, z)
    \/ call = NoCall /\ \E x, y, z \in Atomic : CallHexagon(x, y, z)

SpecSym == InitSym /\ [][NextSym]_vars

(*************************************************************************)
(* Tensor diagrams built layer by layer and then evaluated: f is the     *)
(* diagram built so far, g the second operand of the last evaluation,    *)
(* out what the evaluation gave.                                         *)
(*************************************************************************)
\* the boxes the diagrams are built from
TensorBoxes ==
    { TensorBox("A", <<2>>, <<2>>, <<1, 2, 3, 4>>),
      TensorBox("A2", <<2>>, <<2>>, <<0, 1, 2, 0>>),
      TensorBox("B", <<2>>, <<3>>, <<1, 0, 2, 0, 1, 3>>),
      TensorBox("v", <<>>, <<2>>, <<1, 2>>),
      TensorBox("e", <<3>>, <<>>, <<1, 0, 2>>),
      TensorBox("m", <<2, 3>>, <<2>>, <<1, 0, 0, 2, 3, 0, 0, 1, 1, 1, 0, 2>>) }

TensorSwaps == {Swap(<<2>>, <<2>>), Swap(<<2>>, <<3>>), Swap(<<3>>, <<2>>)}

Spiders ==
    {Spider(n[1], n[2], <<2>>) :
        n \in {<<1, 1>>, <<2, 0>>, <<0, 2>>, <<1, 2>>, <<2, 1>>, <<0, 1>>, <<1, 0>>}}

\* the types the diagrams start from
TensorDoms == {<<>>, <<2>>, <<3>>, <<2, 2>>, <<2, 3>>}

\* the second operands of a product
Operands ==
    {BoxDiagram(box) : box \in TensorBoxes \cup TensorSwaps \cup Spiders}
        \cup {Id(<<>>), Id(<<2>>), Id(<<3>>)}

\* f >> Id(left) @ box @ Id(right)
AddLayer(box, off) ==
    /\ out = NoOut
    /\ Len(f.inside) < MaxLayers
    /\ Fits(f, box, off)
    /\ f' = then(f, Whisker(f, box, off))
    /\ UNCHANGED <<g, out, backendVars, symVars>>

\* the first k layers of a diagram, and the layers after them
Prefix(d, k) ==
    [dom |-> d.dom,
     cod |-> IF k = 0 THEN d.dom ELSE LayerCod(d.inside[k]),
     inside |-> Slice(d.inside, 0, k)]

Suffix(d, k) ==
    [dom |-> IF k = 0 THEN d.dom ELSE LayerCod(d.inside[k]),
     cod |-> d.cod,
     inside |-> SliceFrom(d.inside, k)]

\* (left >> right) evaluated, and left.eval().then(right.eval()), for
\* the two diagrams f is the composition of at its layer k
EvalThen(k) ==
    /\ out = NoOut
    /\ k \in 0 .. Len(f.inside)
    /\ g' = Suffix(f, k)
    /\ out' = [op |-> "then",
               left |-> Prefix(f, k),
               whole |-> Functor(then(Prefix(f, k), Suffix(f, k))),
               parts |-> Tensor_then(Functor(Prefix(f, k)), Functor(Suffix(f, k)))]
    /\ UNCHANGED <<f, backendVars, symVars>>

\* (left @ right) evaluated, and left.eval().tensor(right.eval()), with
\* f on the left or on the right of the operand
EvalTensor(operand, flip) ==
    /\ out = NoOut
    /\ Len(f.dom \o operand.dom) <= MaxWires
    /\ Len(f.cod \o operand.cod) <= MaxWires
    /\ g' = operand
    /\ LET left == IF flip THEN operand ELSE f
           right == IF flip THEN f ELSE operand
       IN  out' = [op |-> "tensor",
                   left |-> left,
                   whole |-> Functor(tensor(left, right)),
                   parts |-> Tensor_tensor(Functor(left), Functor(right))]
    /\ UNCHANGED <<f, backendVars, symVars>>

\* f.eval() and f.eval(contractor)
EvalBoth ==
    /\ out = NoOut
    /\ LET np == Tensor_get_backend(backend_stack).backend
       IN  out' = [op |-> "eval",
                   left |-> f,
                   whole |-> Diagram_eval(f, FALSE, np),
                   parts |-> Diagram_eval(f, TRUE, np)]
    /\ UNCHANGED <<f, g, backendVars, symVars>>

\* f.eval(), with scan and the accumulator after each layer
EvalScan ==
    /\ out = NoOut
    /\ out' = [op |-> "scan",
               left |-> f,
               trace |-> FunctorTrace(f.inside, f.dom, f.dom,
                                      Tensor_id(F_ob(f.dom)).array),
               whole |-> Functor(f)]
    /\ UNCHANGED <<f, g, backendVars, symVars>>

\* f.to_tn(), with the network after each box
EvalToTn ==
    /\ out = NoOut
    /\ out' = [op |-> "to_tn",
               left |-> f,
               trace |-> ToTnTrace(InputNodes(f.dom), f.inside),
               whole |-> to_tn(f)]
    /\ UNCHANGED <<f, g, backendVars, symVars>>

\* f.grad(var), and the evaluation of what it returns
EvalGrad(var) ==
    /\ out = NoOut
    /\ var \notin free_symbols(f)
    /\ LET np == Tensor_get_backend(backend_stack).backend
           result == Diagram_grad(f, var)
       IN  out' = [op |-> "grad",
                   left |-> f,
                   var |-> var,
                   result |-> result,
                   whole |-> IF result.raised = "None" THEN Sum_eval(result.value, np)
                             ELSE TensorError(result.raised)]
    /\ UNCHANGED <<f, g, backendVars, symVars>>

\* the diagrams a sum with f may have as terms
Parallel(d) == {t \in Operands \cup {d} : t.dom = d.dom /\ t.cod = d.cod}

\* the entries of the terms' evaluations added up, on the declared type
TermsAdded(terms, dom, cod) ==
    LET evals == [t \in DOMAIN terms |-> Functor(terms[t]).array.data] \o <<>>
        shape == F_ob(dom) \o F_ob(cod)
    IN  Tensor(F_ob(dom), F_ob(cod),
               Array(shape, [k \in 1 .. Prod(shape) |->
                                SumSeq([t \in DOMAIN terms |-> evals[t][k]])]))

\* the functor applied to Sum(terms, f.dom, f.cod), and its eval()
EvalSum(terms) ==
    /\ out = NoOut
    /\ LET np == Tensor_get_backend(backend_stack).backend
           s == Sum(terms, f.dom, f.cod)
       IN  out' = [op |-> "sum",
                   left |-> f,
                   terms |-> terms,
                   whole |-> FunctorSum(s),
                   parts |-> Sum_eval(s, np),
                   added |-> TermsAdded(terms, f.dom, f.cod)]
    /\ UNCHANGED <<f, g, backendVars, symVars>>

InitTensor ==
    /\ backend_stack = <<get_backend("numpy").backend>>
    /\ INSTANTIATED_BACKENDS = {get_backend("numpy").backend}
    /\ scopes = <<>>
    /\ raising = [c \in Callers |-> FALSE]
    /\ ret = NoRet
    /\ call = NoCall
    /\ \E dom \in TensorDoms : f = Id(dom)
    /\ g = NoDiagram
    /\ out = NoOut

NextTensor ==
    \/ out = NoOut /\ \E box \in TensorBoxes, off \in 0 .. MaxWires : AddLayer(box, off)
    \/ out = NoOut /\ \E box \in TensorSwaps, off \in 0 .. MaxWires : AddLayer(box, off)
    \/ out = NoOut /\ \E box \in Spiders, off \in 0 .. MaxWires : AddLayer(box, off)
    \/ out = NoOut /\ \E k \in 0 .. MaxLayers : EvalThen(k)
    \/ out = NoOut /\ \E operand \in Operands, flip \in BOOLEAN : EvalTensor(operand, flip)
    \/ out = NoOut /\ EvalBoth
    \/ out = NoOut /\ EvalScan
    \/ out = NoOut /\ EvalToTn
    \/ out = NoOut /\ \E var \in {"x", "y"} : EvalGrad(var)
    \/ out = NoOut /\ \E n \in 0 .. MaxTerms : \E terms \in [1 .. n -> Parallel(f)] :
            EvalSum(terms)

SpecTensor == InitTensor /\ [][NextTensor]_vars

(*************************************************************************)
(* Calls of single operations on diagrams and on tensors, each on inputs *)
(* drawn from the sets below; call holds the last call and its result.   *)
(*************************************************************************)
\* the boxes and swaps the symmetric diagrams are built from
SymBoxes ==
    { Box("f", <<"x">>, <<"x">>), Box("g", <<"x">>, <<"y">>),
      Box("h", <<"x", "y">>, <<"x">>), Box("k", <<"y">>, <<"x", "y">>) }

SymSwaps == {Swap(<<a>>, <<b>>) : a, b \in {"x", "y"}}

\* the diagrams of at most n layers on at most MaxWires wires
RECURSIVE Layered(_)
Layered(n) ==
    IF n = 0 THEN {Id(t) : t \in TypesOver({"x", "y"}, MaxWires)}
    ELSE Layered(n - 1) \cup
         { then(t[1], Whisker(t[1], t[2], t[3])) :
             t \in { u \in Layered(n - 1) \X (SymBoxes \cup SymSwaps) \X (0 .. MaxWires) :
                        Fits(u[1], u[2], u[3]) } }

SymDiagrams == Layered(MaxLayers)

\* the types of the tensors passed
TensorTypes ==
    { <<<<>>, <<>>>>, <<<<>>, <<2>>>>, <<<<2>>, <<>>>>, <<<<2>>, <<2>>>>, <<<<2>>, <<3>>>>,
      <<<<3>>, <<2>>>>, <<<<2>>, <<2, 3>>>>, <<<<2, 3>>, <<2>>>> }

\* arrays of a shape with entries from -1 to 2, the all-zero one among them
Ramp(shape, a, b) == Array(shape, [k \in 1 .. Prod(shape) |-> ((a * k + b) % 4) - 1])

\* the complex tensors of a type with the given real and imaginary parts
TensorsFrom(dom, cod, res, ims) ==
    { Complex(Tensor(dom, cod, Ramp(dom \o cod, re[1], re[2])),
              Tensor(dom, cod, Ramp(dom \o cod, im[1], im[2]))) :
        re \in res, im \in ims }

\* the tensors passed as self, and those passed as other
Tensors(dom, cod) ==
    TensorsFrom(dom, cod, {0, 1, 3} \X {0, 1}, {<<0, 1>>, <<1, 0>>, <<3, 1>>})

Others(dom, cod) ==
    TensorsFrom(dom, cod, {<<1, 0>>, <<3, 1>>}, {<<0, 1>>, <<1, 0>>, <<3, 1>>})

\* something that is no Tensor
NoTensor == Complex(PyInt(1), PyInt(0))

\* d.dagger(), d.dagger().dagger(), and the dagger of d seen as the
\* composition of its first k layers with the others
CallDagger(d, k) ==
    /\ call = NoCall
    /\ k \in 0 .. Len(d.inside)
    /\ LET lhs == Diagram_dagger(then(Prefix(d, k), Suffix(d, k)))
           rhs == then(Diagram_dagger(Suffix(d, k)), Diagram_dagger(Prefix(d, k)))
           twice == Diagram_dagger(Diagram_dagger(d))
       IN  call' = [op |-> "dagger", self |-> d, k |-> k,
                    dagger |-> Diagram_dagger(d),
                    twice |-> twice, equal |-> Diagram_eq(twice, d),
                    lhs |-> lhs, rhs |-> rhs, equal2 |-> Diagram_eq(lhs, rhs)]
    /\ UNCHANGED <<backendVars, tensorVars>>

\* self.dagger() and self.dagger().dagger() of a tensor
CallTensorDagger(self) ==
    /\ call = NoCall
    /\ call' = [op |-> "Tensor.dagger", self |-> self,
                dagger |-> Tensor_dagger(self),
                twice |-> Tensor_dagger(Tensor_dagger(self))]
    /\ UNCHANGED <<backendVars, tensorVars>>

\* the entries sum over k of self[i, k] * other[k, j], on complex entries
Contracted(self, other) ==
    LET shape == self.re.dom \o other.re.cod
        n == Len(self.re.dom)
        inner == self.re.cod
        terms(p, part) ==
            LET idx == Unravel(p - 1, shape)
                i == Slice(idx, 0, n)
                j == SliceFrom(idx, n)
            IN  SumSeq([q \in 1 .. Prod(inner) |->
                    LET m == Unravel(q - 1, inner)
                        a == At(self.re.array, i \o m)
                        b == At(self.im.array, i \o m)
                        c == At(other.re.array, m \o j)
                        e == At(other.im.array, m \o j)
                    IN  IF part = "re" THEN a * c - b * e ELSE a * e + b * c])
    IN  Complex(Array(shape, [p \in 1 .. Prod(shape) |-> terms(p, "re")]),
                Array(shape, [p \in 1 .. Prod(shape) |-> terms(p, "im")]))

\* self.then(other), its dagger, and other.dagger().then(self.dagger())
CallTensorThen(self, other) ==
    /\ call = NoCall
    /\ LET result == Complex_then(self, other)
       IN  call' = [op |-> "Tensor.then", self |-> self, other |-> other,
                    result |-> result,
                    dagger |-> Tensor_dagger(result),
                    daggers |-> Complex_then(Tensor_dagger(other), Tensor_dagger(self))]
    /\ UNCHANGED <<backendVars, tensorVars>>

\* d.simplify() and d.simplify().simplify()
CallSimplify(d) ==
    /\ call = NoCall
    /\ LET once == simplify(d)
           twice == simplify(once)
       IN  call' = [op |-> "simplify", self |-> d, once |-> once, twice |-> twice,
                    idempotent |-> Diagram_eq(twice, once),
                    equal |-> Diagram_eq(once, d)]
    /\ UNCHANGED <<backendVars, tensorVars>>

\* the types of the boxes evaluated alone, and the shapes of their data
BoxTensorTypes ==
    { <<<<>>, <<2>>>>, <<<<2>>, <<2>>>>, <<<<2>>, <<3>>>>, <<<<2, 3>>, <<2>>>> }

PayloadShapes ==
    { <<>>, <<2>>, <<3>>, <<4>>, <<6>>, <<12>>, <<2, 2>>, <<2, 3>>, <<3, 2>>,
      <<2, 6>>, <<2, 3, 2>>, <<3, 2, 2>>, <<2, 2, 3>> }

Payloads == {Ramp(shape, a, b) : shape \in PayloadShapes, a \in {1, 3}, b \in {0, 1}}

\* Box(name, dom, cod, data).eval()
CallBoxEval(dom, cod, data) ==
    /\ call = NoCall
    /\ LET box == ShapedBox("A", dom, cod, data)
       IN  call' = [op |-> "Box.eval", self |-> box, data |-> data,
                    result |-> Diagram_eval(BoxDiagram(box), FALSE, "NumPyBackend")]
    /\ UNCHANGED <<backendVars, tensorVars>>

\* the components passed to Dim: ints from -1 to 3, the floats 1.0 and 2.0,
\* and the strings "1" and "ab"
DimComponents ==
    {Ob("int", n) : n \in (-1) .. 3} \cup {Ob("float", 1), Ob("float", 2), Ob("str", 1), Ob("str", 2)}

DimLists == UNION {[1 .. k -> DimComponents] : k \in 0 .. MaxDims}

\* Dim(*dims), and .l and .r of the Dim built
CallDim(dims) ==
    /\ call = NoCall
    /\ LET result == Dim_init(dims)
       IN  call' = [op |-> "Dim", dims |-> dims, result |-> result,
                    l |-> IF result.raised = "None" THEN Dim_l(result.value) ELSE result,
                    r |-> IF result.raised = "None" THEN Dim_r(result.value) ELSE result]
    /\ UNCHANGED <<backendVars, tensorVars>>

\* the wires to the left and to the right of a swap evaluated
SwapContexts == {<<>>, <<2>>, <<3>>, <<2, 3>>}

\* Tensor.swap(Dim(m), Dim(n)), and the evaluation of
\* left @ Swap(Dim(m), Dim(n)) @ right
CallTensorSwap(m, n, left, right) ==
    /\ call = NoCall
    /\ Len(left) + Len(right) <= MaxWires
    /\ LET box == Swap(<<m>>, <<n>>)
           d == [dom |-> left \o box.dom \o right, cod |-> left \o box.cod \o right,
                 inside |-> <<Layer(left, box, right)>>]
       IN  call' = [op |-> "Tensor.swap", m |-> m, n |-> n,
                    left |-> left, right |-> right,
                    swap |-> Tensor_swap(<<m>>, <<n>>),
                    whole |-> Diagram_eval(d, FALSE, "NumPyBackend")]
    /\ UNCHANGED <<backendVars, tensorVars>>

\* the boxes from a type to itself
EndoBoxes == {Box("f", <<"x">>, <<"x">>), Box("e", <<"x", "y">>, <<"x", "y">>)}

\* n copies of box composed in sequence
RECURSIVE Copies(_, _)
Copies(box, n) ==
    IF n = 0 THEN Id(box.dom) ELSE then(Copies(box, n - 1), BoxDiagram(box))

\* d followed by the swap of its outputs i + 1 and i + 2, when it has them
ThenSwap(d, i) ==
    IF i + 2 > Len(d.cod) THEN d
    ELSE then(d, Whisker(d, Swap(<<d.cod[i + 1]>>, <<d.cod[i + 2]>>), i))

\* d.depth(), (d @ d).depth() and the depth of d followed by a swap
CallDepth(d, i) ==
    /\ call = NoCall
    /\ call' = [op |-> "depth", self |-> d, i |-> i,
                depth |-> depth(d),
                doubled |-> depth(tensor(d, d)),
                swapped |-> depth(ThenSwap(d, i))]
    /\ UNCHANGED <<backendVars, tensorVars>>

\* the depth of n copies of a box in sequence
CallDepthCopies(box, n) ==
    /\ call = NoCall
    /\ call' = [op |-> "depth of copies", box |-> box, n |-> n,
                depth |-> depth(Copies(box, n))]
    /\ UNCHANGED <<backendVars, tensorVars>>

\* the gates rewired: from two qubits to two, from one to one, from two to one
Gates ==
    { BoxDiagram(Box("CX", Pow(qubit, 2), Pow(qubit, 2))),
      BoxDiagram(Box("X", qubit, qubit)),
      BoxDiagram(Box("M", Pow(qubit, 2), qubit)) }

\* rewire(op, a, b, dom=given)
CallRewire(op, a, b, given) ==
    /\ call = NoCall
    /\ call' = [op |-> "rewire", gate |-> op, a |-> a, b |-> b, dom |-> given,
                result |-> rewire(op, a, b, given)]
    /\ UNCHANGED <<backendVars, tensorVars>>

\* the real tensors of a type added: the all-zero one and two others
RealTensors(dom, cod) ==
    {Tensor(dom, cod, Ramp(dom \o cod, r[1], r[2])) : r \in {<<0, 1>>, <<1, 0>>, <<3, 1>>}}

\* self + other
CallTensorAdd(self, other) ==
    /\ call = NoCall
    /\ call' = [op |-> "Tensor.add", self |-> self, other |-> other,
                result |-> Tensor_add(self, other)]
    /\ UNCHANGED <<backendVars, tensorVars>>

InitOps == InitSym

NextOps ==
    \/ call = NoCall /\ \E dims \in DimLists : CallDim(dims)
    \/ call = NoCall /\ \E t \in BoxTensorTypes, data \in Payloads :
            CallBoxEval(t[1], t[2], data)
    \/ call = NoCall /\ \E op \in Gates, a, b \in 0 .. MaxQubits - 1 :
            \E given \in {NoDom} \cup {Pow(qubit, k) : k \in 0 .. MaxQubits} :
                CallRewire(op, a, b, given)
    \/ call = NoCall /\ \E t \in TensorTypes : \E self \in RealTensors(t[1], t[2]) :
            \E other \in {PyInt(0), PyInt(1)} : CallTensorAdd(self, other)
    \/ call = NoCall /\ \E t, u \in TensorTypes :
            \E self \in RealTensors(t[1], t[2]), other \in RealTensors(u[1], u[2]) :
                CallTensorAdd(self, other)
    \/ call = NoCall /\ \E box \in EndoBoxes, n \in 0 .. MaxCopies :
            CallDepthCopies(box, n)
    \/ call = NoCall /\ \E d \in SymDiagrams, i \in 0 .. MaxWires - 1 : CallDepth(d, i)
    \/ call = NoCall /\ \E d \in SymDiagrams, k \in 0 .. MaxLayers : CallDagger(d, k)
    \/ call = NoCall /\ \E d \in SymDiagrams : CallSimplify(d)
    \/ call = NoCall /\ \E t \in TensorTypes : \E self \in Tensors(t[1], t[2]) :
            CallTensorDagger(self)
    \/ call = NoCall /\ \E t \in TensorTypes : \E self \in Tensors(t[1], t[2]) :
            CallTensorThen(self, NoTensor)
    \/ call = NoCall /\ \E t, u \in TensorTypes :
            \E self \in Tensors(t[1], t[2]), other \in Others(u[1], u[2]) :
                CallTensorThen(self, other)
    \/ call = NoCall /\ \E m, n \in {2, 3}, left, right \in SwapContexts :
            CallTensorSwap(m, n, left, right)

SpecOps == InitOps /\ [][NextOps]_vars

(*************************************************************************)
(* SpecGates: calls on quantum gates, each action one call recorded in   *)
(* call.                                                                 *)
(*************************************************************************)
\* the arrays of gates on one qubit: entries with real part 0 or 1 and
\* imaginary part -1, 0 or 1
GateArrays ==
    {Complex(Array(<<4>>, re), Array(<<4>>, im)) :
        re \in [1 .. 4 -> {0, 1}], im \in [1 .. 4 -> {-1, 0, 1}]}

DaggerFlags == {"True", "False", "None"}

\* g.dagger() and the evaluations of g and of g.dagger()
CallGateDagger(array, _dagger) ==
    /\ call = NoCall
    /\ LET gate == QuantumGate("U", 1, array, _dagger)
           dagger == Gate_dagger(gate)
       IN  call' = [op |-> "QuantumGate.dagger", gate |-> gate, dagger |-> dagger,
                    eval |-> FunctorGate(gate),
                    eval_dagger |-> FunctorGate(dagger)]
    /\ UNCHANGED <<backendVars, tensorVars>>

\* Controlled(g, distance), its dagger and their evaluations
CallControlledDagger(array, _dagger, distance) ==
    /\ call = NoCall
    /\ LET built == Controlled(QuantumGate("U", 1, array, _dagger), distance)
       IN  IF built.raised # "None"
           THEN call' = [op |-> "Controlled", raised |-> built.raised,
                         distance |-> distance]
           ELSE LET gate == built.value
                    dagger == Gate_dagger(gate)
                IN  call' = [op |-> "Controlled.dagger", gate |-> gate,
                             dagger |-> dagger,
                             eval |-> FunctorGate(gate),
                             eval_dagger |-> FunctorGate(dagger)]
    /\ UNCHANGED <<backendVars, tensorVars>>

\* the generalised gates on qudits of every dimension from 2
PowGates ==
    UNION {{GX(<<d>>), Neg(<<d>>), GZ(<<d>>), GH(<<d>>), Add(<<d, d>>),
            GeneralizedQuantumGate("U", <<d>>, FALSE)} : d \in 2 .. MaxQudit}

\* the exponents: the integers and one float
Exponents ==
    [type : {"int"}, value : -MaxTimes .. MaxTimes] \cup {[type |-> "float", value |-> 1]}

\* gate ** times
CallGatePow(gate, times) ==
    /\ call = NoCall
    /\ call' = [op |-> "pow", gate |-> gate, times |-> times,
                period |-> PowPeriod(gate), result |-> Gate_pow(gate, times)]
    /\ UNCHANGED <<backendVars, tensorVars>>

NextGates ==
    \/ call = NoCall /\ \E gate \in PowGates, times \in Exponents :
            CallGatePow(gate, times)
    \/ call = NoCall /\ \E array \in GateArrays, _dagger \in DaggerFlags :
            CallGateDagger(array, _dagger)
    \/ call = NoCall /\ \E array \in GateArrays, _dagger \in DaggerFlags :
            \E distance \in {0, 1} : CallControlledDagger(array, _dagger, distance)

SpecGates == InitOps /\ [][NextGates]_vars

(*************************************************************************)
(* C1: when a scope entered with a valid name exits, normally or by an   *)
(* exception of its body, and everything that touched the stack while it *)
(* was open was a properly nested scope with a valid name, the stack is  *)
(* the stack of before its entry, and so is the current backend.         *)
(*************************************************************************)
C1_ScopeRestoresStack ==
    (ret.op = "exit" /\ ret.proper) =>
        /\ ret.raised = "None"
        /\ backend_stack = ret.saved
        /\ Tensor_get_backend(backend_stack) = Tensor_get_backend(ret.saved)

\* the inner of two nested scopes left by an exception, the outer one open
C1_Witness ==
    /\ ret.op = "exit" /\ ret.proper /\ ret.exc
    /\ Len(ret.saved) >= 2
    /\ ret.saved[Len(ret.saved)] # ret.saved[1]
    /\ backend_stack = ret.saved
    /\ Len(scopes) >= 1 /\ scopes[Len(scopes)].proper

(*************************************************************************)
(* C2: for a bijection xs on 0 .. len(dom) - 1, Diagram.permutation(xs,  *)
(* dom) returns a diagram of swaps only, from dom, whose output wire k   *)
(* is input wire xs[k] (so cod[k] = dom[xs[k]]); d.permute(xs) keeps    *)
(* d.dom and has cod[k] = d.cod[xs[k]]; permutation([1, 0], a @ b) is    *)
(* swap(a, b).                                                           *)
(*************************************************************************)
IsBijection(xs, n) ==
    /\ Len(xs) = n
    /\ \A k \in 0 .. n - 1 : \E i \in DOMAIN xs : xs[i] = k

C2_PermutationWires ==
    /\ call.op = "permutation" /\ IsBijection(call.xs, Len(call.dom)) =>
        /\ call.result.raised = "None"
        /\ LET d == call.result.value
               h == to_hypergraph(d)
           IN  /\ WellTyped(d)
               /\ d.dom = call.dom
               /\ \A i \in DOMAIN d.inside : d.inside[i].box.kind = "Swap"
               /\ Len(d.cod) = Len(call.dom)
               /\ \A k \in DOMAIN d.cod :
                    /\ d.cod[k] = call.dom[call.xs[k] + 1]
                    /\ h.outs[k] = <<0, call.xs[k] + 1>>
               /\ call.xs = <<1, 0>> =>
                    Diagram_eq(d, swap(<<call.dom[1]>>, <<call.dom[2]>>))
    /\ call.op = "permute" /\ IsBijection(call.xs, Len(call.self.cod)) =>
        /\ call.result.raised = "None"
        /\ LET d == call.result.value
           IN  /\ WellTyped(d)
               /\ d.dom = call.self.dom
               /\ Len(d.cod) = Len(call.self.cod)
               /\ \A k \in DOMAIN d.cod : d.cod[k] = call.self.cod[call.xs[k] + 1]

\* Id(x @ y @ z).permute(2, 0, 1).cod == z @ x @ y (line 170)
C2_Witness ==
    /\ call.op = "permute"
    /\ call.self = Id(<<"x", "y", "z">>)
    /\ call.xs = <<2, 0, 1>>
    /\ call.result.raised = "None"
    /\ call.result.value.cod = <<"z", "x", "y">>
    /\ Len(call.result.value.inside) = 2

(*************************************************************************)
(* C3: the evaluation of an identity diagram is the identity tensor on   *)
(* its type, and the evaluation of left >> right is the evaluation of    *)
(* left composed by Tensor.then with the evaluation of right, for boxes, *)
(* swaps and spiders at any offset.                                      *)
(*************************************************************************)
C3_FunctorPreservesThen ==
    out.op = "then" =>
        /\ out.whole.raised = "None"
        /\ out.whole = out.parts
        /\ f.inside = <<>> => out.whole = Tensor_id(F_ob(f.dom))

\* two diagrams of a layer each, the second a box at offset 1 or a swap,
\* have been composed and evaluated
C3_Witness ==
    /\ out.op = "then"
    /\ Len(out.left.inside) = 1
    /\ Len(g.inside) = 1
    /\ g.inside[1].left # <<>> \/ g.inside[1].box.kind = "Swap"
    /\ out.whole = out.parts
    /\ \E k \in DOMAIN out.whole.array.data : out.whole.array.data[k] > 1

(*************************************************************************)
(* C4: the evaluation of left @ right is the evaluation of left          *)
(* multiplied by Tensor.tensor with the evaluation of right: the outer   *)
(* product, with the axes in the order left.dom, right.dom, left.cod,    *)
(* right.cod.                                                            *)
(*************************************************************************)
C4_FunctorPreservesTensor ==
    out.op = "tensor" =>
        /\ out.whole.raised = "None"
        /\ out.whole = out.parts
        /\ out.whole.array.shape =
              LET right == IF out.left = f THEN g ELSE f
              IN  out.left.dom \o right.dom \o out.left.cod \o right.cod

\* the product of two diagrams that both have a domain and a codomain has
\* been evaluated
C4_Witness ==
    /\ out.op = "tensor"
    /\ f.inside # <<>> /\ g.inside # <<>>
    /\ f.dom # <<>> /\ f.cod # <<>> /\ g.dom # <<>> /\ g.cod # <<>>
    /\ out.whole = out.parts
    /\ \E k \in DOMAIN out.whole.array.data : out.whole.array.data[k] > 1

(*************************************************************************)
(* C5: a tensor diagram of boxes, swaps and spiders evaluates to the     *)
(* same Tensor, of the diagram's dom and cod, by the functor and by the  *)
(* contraction of the network to_tn exports.                             *)
(*************************************************************************)
C5_BothPathsAgree ==
    out.op = "eval" =>
        /\ out.whole.raised = "None"
        /\ out.parts = out.whole
        /\ <<out.whole.dom, out.whole.cod>> = <<f.dom, f.cod>>

(*************************************************************************)
(* C6: a Sum of tensor diagrams evaluates to the sum, entry by entry, of *)
(* the evaluations of its terms, the all-zero Tensor of the declared dom *)
(* and cod when it has no term, by the functor and by Sum.eval alike.    *)
(*************************************************************************)
C6_SumEvaluation ==
    out.op = "sum" =>
        /\ out.whole = out.added
        /\ out.parts = out.added
        /\ out.terms = <<>> => out.parts = Tensor_zeros(F_ob(f.dom), F_ob(f.cod))

(*************************************************************************)
(* C11: the dagger is an involution.  The dagger of a diagram of boxes   *)
(* and swaps, taken twice, is the diagram again, the dagger of           *)
(* Swap(x, y) being Swap(y, x); Tensor.dagger taken twice gives a tensor *)
(* equal to the original.                                                *)
(*************************************************************************)
C11_DaggerInvolution ==
    /\ call.op = "dagger" =>
        /\ call.equal
        /\ call.twice = call.self
        /\ WellTyped(call.dagger)
        /\ <<call.dagger.dom, call.dagger.cod>> = <<call.self.cod, call.self.dom>>
        /\ \A i \in DOMAIN call.self.inside :
              LET box == call.self.inside[i].box
                  back == call.dagger.inside[Len(call.self.inside) + 1 - i].box
              IN  box.kind = "Swap" =>
                    back = Swap(Slice(box.dom, 1, 2), Slice(box.dom, 0, 1))
    /\ call.op = "Tensor.dagger" =>
        /\ call.twice.re.raised = "None"
        /\ call.twice = call.self

\* a diagram with a swap of two different atoms and a box has been
\* daggered, or a tensor with different dom and cod and an imaginary part
C11_Witness ==
    \/ /\ call.op = "dagger"
       /\ \E i, j \in DOMAIN call.self.inside :
            /\ call.self.inside[i].box.kind = "Swap"
            /\ call.self.inside[i].box.dom[1] # call.self.inside[i].box.dom[2]
            /\ call.self.inside[j].box.kind = "Box"
       /\ call.equal
    \/ /\ call.op = "Tensor.dagger"
       /\ Len(call.self.re.dom) # Len(call.self.re.cod)
       /\ \E k \in DOMAIN call.self.im.array.data : call.self.im.array.data[k] # 0
       /\ call.twice = call.self
       /\ call.dagger # call.self

(*************************************************************************)
(* C12: the dagger reverses composition.  The dagger of left >> right is *)
(* right.dagger() >> left.dagger(); the dagger of A.then(B) is           *)
(* B.dagger().then(A.dagger()), with dom and cod exchanged and every     *)
(* entry the conjugate of the entry at the exchanged index.              *)
(*************************************************************************)
C12_DaggerReversesThen ==
    /\ call.op = "dagger" => call.equal2 /\ call.lhs = call.rhs
    /\ (call.op = "Tensor.then" /\ call.result.re.raised = "None") =>
        /\ call.dagger.re.raised = "None"
        /\ call.dagger = call.daggers
        /\ <<call.dagger.re.dom, call.dagger.re.cod>>
              = <<call.result.re.cod, call.result.re.dom>>
        /\ LET n == Len(call.result.re.dom)
               shape == call.result.re.array.shape
           IN  \A p \in 1 .. Prod(shape) :
                  LET idx == Unravel(p - 1, shape)
                      back == SliceFrom(idx, n) \o Slice(idx, 0, n)
                  IN  /\ At(call.dagger.re.array, back) = At(call.result.re.array, idx)
                      /\ At(call.dagger.im.array, back) = 0 - At(call.result.im.array, idx)

\* two tensors with imaginary parts have been composed over two axes
C12_Witness ==
    /\ call.op = "Tensor.then"
    /\ call.result.re.raised = "None"
    /\ Len(call.self.re.cod) = 2
    /\ \E k \in DOMAIN call.result.im.array.data : call.result.im.array.data[k] # 0
    /\ \E k \in DOMAIN call.result.re.array.data : call.result.re.array.data[k] # 0
    /\ call.dagger = call.daggers

(*************************************************************************)
(* C13: simplify is idempotent, d.simplify().simplify() equals           *)
(* d.simplify(), and d.simplify() is a diagram of the dom and cod of d   *)
(* that is equal to d.                                                   *)
(*************************************************************************)
C13_SimplifyIdempotent ==
    call.op = "simplify" =>
        /\ call.idempotent
        /\ call.twice = call.once
        /\ WellTyped(call.once)
        /\ <<call.once.dom, call.once.cod>> = <<call.self.dom, call.self.cod>>
        /\ call.equal

\* a diagram that ends with a swap under a box has been simplified to a
\* diagram with other layers
C13_Witness ==
    /\ call.op = "simplify"
    /\ Len(call.self.inside) = 2
    /\ call.self.inside[1].box.kind = "Box"
    /\ call.self.inside[2].box.kind = "Swap"
    /\ call.once # call.self
    /\ call.equal /\ call.idempotent

(*************************************************************************)
(* C14: Diagram.permutation(xs, dom) raises ValueError, and returns no   *)
(* diagram, exactly when xs is not a list of the indices 0 .. len(dom)-1 *)
(* each taken once; permute(xs) does the same against self.cod.          *)
(*************************************************************************)
C14_PermutationValueError ==
    /\ call.op = "permutation" =>
        /\ call.result.raised \in {"None", "ValueError"}
        /\ call.result.raised = "ValueError" <=> ~IsBijection(call.xs, Len(call.dom))
        /\ call.result.raised = "ValueError" => call.result = Raised("ValueError")
    /\ call.op = "permute" =>
        /\ call.result.raised \in {"None", "ValueError"}
        /\ call.result.raised = "ValueError" <=> ~IsBijection(call.xs, Len(call.self.cod))
        /\ call.result.raised = "ValueError" => call.result = Raised("ValueError")

\* a list of the right length with an index taken twice has been refused
C14_Witness ==
    /\ call.op = "permutation"
    /\ Len(call.xs) = Len(call.dom)
    /\ Len(call.xs) = 3
    /\ \A i \in DOMAIN call.xs : call.xs[i] \in 0 .. 2
    /\ call.result.raised = "ValueError"

(*************************************************************************)
(* C15: Tensor.then(other) raises TypeError when other is not a Tensor   *)
(* and AxiomError when self.cod differs from other.dom, and then returns *)
(* no tensor; otherwise the result goes from self.dom to other.cod and   *)
(* its entry [i, j] is the sum over k of self[i, k] * other[k, j].       *)
(*************************************************************************)
C15_ThenContract ==
    call.op = "Tensor.then" =>
        IF call.other.re.type # "Tensor"
        THEN call.result = Complex(TensorError("TypeError"), TensorError("TypeError"))
        ELSE IF call.self.re.cod # call.other.re.dom
        THEN call.result = Complex(TensorError("AxiomError"), TensorError("AxiomError"))
        ELSE /\ call.result.re.raised = "None"
             /\ call.result.im.raised = "None"
             /\ call.result.re.dom = call.self.re.dom
             /\ call.result.re.cod = call.other.re.cod
             /\ call.result.im.dom = call.self.re.dom
             /\ call.result.im.cod = call.other.re.cod
             /\ call.result.re.array = Contracted(call.self, call.other).re
             /\ call.result.im.array = Contracted(call.self, call.other).im

\* a composition over a two-axis codomain with a nonzero entry in the result
C15_Witness ==
    /\ call.op = "Tensor.then"
    /\ call.self.re.cod = <<2, 3>>
    /\ call.other.re.dom = <<2, 3>>
    /\ call.result.re.raised = "None"
    /\ \E k \in DOMAIN call.result.re.array.data : call.result.re.array.data[k] # 0

(*************************************************************************)
(* C16: a tensor Box is built whatever the shape of its data, and        *)
(* evaluating a box whose data does not have the shape of dom @ cod (a   *)
(* different number of entries, or the same entries in another shape)    *)
(* raises an error instead of returning a Tensor.                        *)
(*************************************************************************)
C16_ShapeMismatchAtEval ==
    call.op = "Box.eval" =>
        /\ call.self.data = call.data.data
        /\ call.self.shape = call.data.shape
        /\ call.data.shape # call.self.dom \o call.self.cod =>
                call.result.raised # "None"

(*************************************************************************)
(* C16, amended: a tensor Box is built whatever the shape of its data;   *)
(* evaluating it raises ValueError exactly when the data has another     *)
(* number of entries than dom @ cod, and data with that number of        *)
(* entries in any arrangement gives the Tensor of those entries in       *)
(* row-major order.                                                      *)
(*************************************************************************)
C16_EntryCountAtEval ==
    call.op = "Box.eval" =>
        /\ call.self.data = call.data.data
        /\ call.self.shape = call.data.shape
        /\ IF Prod(call.data.shape) # Prod(call.self.dom \o call.self.cod)
           THEN call.result = TensorError("ValueError")
           ELSE /\ call.result.raised = "None"
                /\ call.result.dom = call.self.dom
                /\ call.result.cod = call.self.cod
                /\ call.result.array.shape = call.self.dom \o call.self.cod
                /\ call.result.array.data = call.data.data

\* a box from 2 to 3 with a 2 by 2 payload was evaluated and refused
C16_Witness ==
    /\ call.op = "Box.eval"
    /\ call.self.dom = <<2>>
    /\ call.self.cod = <<3>>
    /\ call.data.shape = <<2, 2>>
    /\ call.result.raised = "ValueError"

(*************************************************************************)
(* C17: a Dim holds only integers of at least 2, in the order given: the *)
(* components equal to 1 are dropped, so that Dim(1) is the unit and     *)
(* Dim(1) @ Dim(2) @ Dim(3) is Dim(2, 3); a component that is no integer *)
(* raises TypeError and an integer below 1 raises ValueError; .l and .r  *)
(* give the Dim reversed.                                                *)
(*************************************************************************)
IsInt(x) == x.type = "int"
IsOne(x) == x.type \in {"int", "float"} /\ x.name = 1
BadType(dims) == {i \in DOMAIN dims : ~IsOne(dims[i]) /\ ~IsInt(dims[i])}
BadValue(dims) == {i \in DOMAIN dims : IsInt(dims[i]) /\ dims[i].name < 1}
\* the k-th component that is not 1
Kept(dims, k) ==
    CHOOSE i \in DOMAIN dims :
        /\ ~IsOne(dims[i])
        /\ Cardinality({m \in 1 .. i : ~IsOne(dims[m])}) = k

C18_SwapTensor ==
    call.op = "Tensor.swap" =>
        LET m == call.m
            n == call.n
            id_left == Tensor_id(call.left)
            id_right == Tensor_id(call.right)
        IN  /\ call.swap.raised = "None"
            /\ call.swap.dom = <<m, n>>
            /\ call.swap.cod = <<n, m>>
            /\ call.swap.array.shape = <<m, n, n, m>>
            /\ \A i, l \in 0 .. m - 1 : \A j, k \in 0 .. n - 1 :
                    At(call.swap.array, <<i, j, k, l>>)
                        = IF k = j /\ l = i THEN 1 ELSE 0
            /\ call.whole = Tensor_tensor(Tensor_tensor(id_left, call.swap), id_right)

\* a swap of wires of dimensions 2 and 3 was evaluated under a wire on each side
C18_Witness ==
    /\ call.op = "Tensor.swap"
    /\ call.m = 2
    /\ call.n = 3
    /\ call.left = <<3>>
    /\ call.right = <<2>>
    /\ call.whole.raised = "None"
    /\ call.whole.cod = <<3, 3, 2, 2>>

(*************************************************************************)
(* C19: depth() is the number of boxes on the longest chain of boxes     *)
(* that are not swaps, each fed by the one before: 0 for an identity, 1  *)
(* for a box f and for f @ f, unchanged by swaps appended, and n for n   *)
(* copies of f in sequence.                                              *)
(*************************************************************************)
\* box n takes an output of box m
Feeds(h, m, n) == \E k \in DOMAIN h.ins[n] : h.ins[n][k][1] = m

\* the sets of boxes that form a chain
Chains(h) ==
    {C \in SUBSET DOMAIN h.boxes :
        \A n \in C :
            \/ \A m \in C : m >= n
            \/ \E m \in C :
                /\ m < n
                /\ \A o \in C : ~(m < o /\ o < n)
                /\ Feeds(h, m, n)}

LongestChain(d) ==
    LET h == to_hypergraph(d)
    IN  SetMax({Cardinality(C) : C \in Chains(h)})

C19_Depth ==
    /\ call.op = "depth" =>
        /\ call.depth = LongestChain(call.self)
        /\ Boxes(call.self) = <<>> => call.depth = 0
        /\ (\A i \in DOMAIN call.self.inside : call.self.inside[i].box.kind = "Swap")
                => call.depth = 0
        /\ Len(call.self.inside) = 1 /\ call.self.inside[1].box.kind = "Box"
                => call.depth = 1 /\ call.doubled = 1
        /\ call.doubled = call.depth
        /\ call.swapped = call.depth
    /\ call.op = "depth of copies" => call.depth = call.n

\* three copies of a box in sequence have depth 3
C19_Witness ==
    /\ call.op = "depth of copies"
    /\ call.n = 3
    /\ call.depth = 3

(*************************************************************************)
(* C20: for a gate op from two qubits to two and distinct a, b below     *)
(* n = len(dom) (max(a, b) + 1 by default), rewire(op, a, b) is a        *)
(* circuit on n qubits that applies op with its leftmost wire on qubit a *)
(* and its rightmost wire on qubit b and is the identity on the other    *)
(* qubits, adjacent or not, in either order; a = b, len(dom) < 2 and     *)
(* op.dom other than two qubits raise ValueError.                        *)
(*************************************************************************)
\* op on qubits a and b of n, as a hypergraph
Rewired(op, a, b, n) ==
    [dom |-> Pow(qubit, n), cod |-> Pow(qubit, n),
     boxes |-> <<op.inside[1].box>>,
     ins |-> <<(<<(<<0, a + 1>>), (<<0, b + 1>>)>>)>>,
     outs |-> [i \in 1 .. n |->
                 IF i = a + 1 THEN <<1, 1>>
                 ELSE IF i = b + 1 THEN <<1, 2>> ELSE <<0, i>>]]

RewireDom(a, b, given) ==
    IF given = NoDom THEN Pow(qubit, (IF a > b THEN a ELSE b) + 1) ELSE given

C20_RewireWires ==
    call.op = "rewire" =>
        LET n == Len(RewireDom(call.a, call.b, call.dom))
        IN  /\ (call.a = call.b \/ n < 2 \/ call.gate.dom # Pow(qubit, 2))
                => call.result = Raised("ValueError")
            /\ ( /\ call.gate.dom = Pow(qubit, 2)
                 /\ call.gate.cod = Pow(qubit, 2)
                 /\ call.a # call.b
                 /\ call.a < n
                 /\ call.b < n )
                => /\ call.result.raised = "None"
                   /\ WellTyped(call.result.value)
                   /\ Isomorphic(to_hypergraph(call.result.value),
                                 Rewired(call.gate, call.a, call.b, n))

(*************************************************************************)
(* C21: Tensor.backend(name) and Tensor.set_backend(name) with a name    *)
(* that is no known backend raise ValueError and leave the backend stack *)
(* as it was, so that Tensor.get_backend() returns the same backend as   *)
(* before the failed call.                                               *)
(*************************************************************************)
C21_InvalidNameKeepsStack ==
    [][(ret'.op \in {"enter", "set_backend"} /\ ret'.raised # "None") =>
            /\ ret'.raised = "ValueError"
            /\ backend_stack' = backend_stack
            /\ Tensor_get_backend(backend_stack') = Tensor_get_backend(backend_stack)]_vars

(*************************************************************************)
(* C22: whatever get_backend, set_backend, scope entries and scope exits *)
(* have run, with valid or invalid names and with or without exceptions  *)
(* in the bodies, the backend stack is not empty and its bottom element  *)
(* is the initial default backend, so Tensor.get_backend() never fails.  *)
(*************************************************************************)
C22_StackNeverEmpty ==
    /\ [](/\ Len(backend_stack) >= 1
          /\ Tensor_get_backend(backend_stack).raised = "None"
          /\ ret.raised \notin {"IndexError"})
    /\ [][Len(backend_stack') >= 1 /\ backend_stack'[1] = backend_stack[1]]_vars

(*************************************************************************)
(* C23: when the scopes of two callers, entered with valid names, have   *)
(* interleaved in any order on the shared stack, nested or not, and all  *)
(* have exited, the stack is the stack of before the first was entered.  *)
(*************************************************************************)
C23_InterleavedScopesRestore ==
    (ret.op = "exit" /\ ret.last) =>
        /\ ret.raised = "None"
        /\ backend_stack = ret.base

\* the last scope has exited after the two callers left theirs out of order
C23_Witness ==
    /\ ret.op = "exit" /\ ret.last /\ ~ret.proper
    /\ scopes = <<>>
    /\ Len(ret.base) >= 1
    /\ backend_stack = ret.base

(*************************************************************************)
(* C24: while the functor evaluates a diagram layer by layer, after each *)
(* layer the accumulator has dim(dom) + dim(scan) axes, the first        *)
(* dim(dom) the input legs in order and axis dim(dom) + k the k-th open  *)
(* wire of scan with its dimension; after the last layer scan is the cod *)
(* and the shape is the dims of dom followed by those of cod.            *)
(*************************************************************************)
C24_AccumulatorAxes ==
    out.op = "scan" =>
        LET d == out.left
            n == Len(out.trace)
        IN  /\ n = Len(d.inside) + 1
            /\ \A k \in 1 .. n :
                LET st == out.trace[k]
                IN  /\ st.array # NoArray
                    /\ Len(st.array.shape) = dim(d.dom) + dim(st.scan)
                    /\ \A i \in 1 .. dim(d.dom) : st.array.shape[i] = d.dom[i]
                    /\ \A i \in 1 .. dim(st.scan) :
                            st.array.shape[dim(d.dom) + i] = st.scan[i]
                    /\ st.scan = Prefix(d, k - 1).cod
                    /\ Tensor(F_ob(d.dom), F_ob(st.scan), st.array)
                            = Functor(Prefix(d, k - 1))
            /\ out.trace[n].scan = d.cod
            /\ out.trace[n].array.shape = d.dom \o d.cod
            /\ out.whole.array = out.trace[n].array

\* two layers evaluated, a box that changes the dimension of the second of
\* three open wires among them
C24_Witness ==
    /\ out.op = "scan"
    /\ Len(out.trace) = 3
    /\ \E k \in 1 .. 2 :
        /\ Len(out.trace[k].scan) >= 2
        /\ Len(out.trace[k + 1].scan) >= 2
        /\ out.trace[k].scan[2] # out.trace[k + 1].scan[2]
        /\ out.left.inside[k].box.kind # "Swap"

(*************************************************************************)
(* C25: for a QuantumGate g whose dagger flag is True or False, and for  *)
(* a Controlled gate built from such a g, g.dagger() has the flag        *)
(* flipped (a None flag stays None) and evaluates to the adjoint of the  *)
(* evaluation of g: dom and cod exchanged, entries transposed and        *)
(* conjugated.                                                           *)
(*************************************************************************)
\* the conjugate transpose of a complex tensor, entry by entry
Adjoint(t) ==
    LET shape == t.re.cod \o t.re.dom
        n == Len(t.re.cod)
        from(k) == LET idx == Unravel(k - 1, shape)
                   IN  SliceFrom(idx, n) \o Slice(idx, 0, n)
    IN  Complex(Tensor(t.re.cod, t.re.dom,
                       Array(shape, [k \in 1 .. Prod(shape) |-> At(t.re.array, from(k))])),
                Tensor(t.re.cod, t.re.dom,
                       Array(shape, [k \in 1 .. Prod(shape) |->
                                        0 - At(t.im.array, from(k))])))

GateDaggerIsAdjoint ==
    /\ call.gate._dagger = "None" => call.dagger._dagger = "None"
    /\ call.gate._dagger = "True" => call.dagger._dagger = "False"
    /\ call.gate._dagger = "False" => call.dagger._dagger = "True"
    /\ call.dagger.dom = call.gate.cod
    /\ call.dagger.cod = call.gate.dom
    /\ call.eval.re.raised = "None"
    /\ call.gate._dagger # "None" => call.eval_dagger = Adjoint(call.eval)

C25_GateDagger ==
    /\ call.op = "QuantumGate.dagger" => GateDaggerIsAdjoint
    /\ (call.op = "Controlled.dagger" /\ call.gate.controlled._dagger # "None")
            => GateDaggerIsAdjoint

(*************************************************************************)
(* C26: Diagram.grad(var) of a tensor diagram in which var is no free    *)
(* symbol returns the zero diagram, a Sum with no term and the dom and   *)
(* cod of the diagram, built by Diagram.sum, which is the class Sum (and *)
(* Diagram.bubble_factory the class Bubble); it evaluates to the         *)
(* all-zero tensor of that type.                                         *)
(*************************************************************************)
C26_GradOfConstant ==
    out.op = "grad" =>
        /\ Diagram_sum = "Sum"
        /\ Diagram_bubble_factory = "Bubble"
        /\ out.result = Ok(Sum(<<>>, out.left.dom, out.left.cod))
        /\ out.whole = Tensor_zeros(F_ob(out.left.dom), F_ob(out.left.cod))

(*************************************************************************)
(* C27: Tensor.__add__ returns the entrywise sum, with dom and cod as    *)
(* they are, for two Tensors of equal dom and cod; returns self when the *)
(* other operand is the number 0; raises TypeError for any other         *)
(* operand that is no Tensor; and raises AxiomError whenever the other   *)
(* operand is a Tensor of another dom or cod, whatever its entries, all  *)
(* zeros included.                                                       *)
(*************************************************************************)
C27_AddOperands ==
    call.op = "Tensor.add" =>
        LET self == call.self
            other == call.other
        IN  IF other.type = "int"
            THEN IF other.array.data[1] = 0 THEN call.result = self
                 ELSE call.result = TensorError("TypeError")
            ELSE IF <<self.dom, self.cod>> # <<other.dom, other.cod>>
            THEN call.result = TensorError("AxiomError")
            ELSE /\ call.result.raised = "None"
                 /\ call.result.dom = self.dom
                 /\ call.result.cod = self.cod
                 /\ call.result.array.shape = self.array.shape
                 /\ \A k \in DOMAIN self.array.data :
                        call.result.array.data[k]
                            = self.array.data[k] + other.array.data[k]

\* the diagram of k copies of the gate, daggered as a whole when sign is -1
Power(gate, k, sign) ==
    LET copies == Repeat(Id(gate.dom), gate, k)
    IN  IF sign = -1 THEN Diagram_dagger(copies) ELSE copies

(*************************************************************************)
(* C28: for an integer times and a positive period p, _gate_pow gives k  *)
(* copies of the gate, daggered as a whole or not, with 2k <= p and the  *)
(* signed exponent (k, or -k when daggered) congruent to times modulo p; *)
(* without a period it gives |times| copies, daggered iff times < 0; it  *)
(* returns in every case, and a times that is no integer raises          *)
(* TypeError.                                                            *)
(*************************************************************************)
C28_GatePow ==
    call.op = "pow" =>
        LET gate == call.gate
            times == call.times.value
            period == call.period
        IN  IF call.times.type # "int" THEN call.result.raised = "TypeError"
            ELSE /\ call.result.raised = "None"
                 /\ IF period = <<>>
                    THEN call.result.value
                            = Power(gate, Abs(times), IF times < 0 THEN -1 ELSE 1)
                    ELSE \E k \in 0 .. period[1], sign \in {-1, 1} :
                            /\ call.result.value = Power(gate, k, sign)
                            /\ 2 * k <= period[1]
                            /\ (sign * k - times) % period[1] = 0

\* a negative exponent past half of the period was moved to the other side
C28_Witness ==
    /\ call.op = "pow"
    /\ call.times.type = "int"
    /\ call.times.value < 0
    /\ call.period # <<>>
    /\ 2 * (Abs(call.times.value) % call.period[1]) > call.period[1]
    /\ Len(call.result.value.inside) > 0
    /\ \A i \in DOMAIN call.result.value.inside :
            ~call.result.value.inside[i].box.is_dagger

\* the boxes for which to_tn makes no node
AddsNoNode(box) ==
    \/ box.kind = "Swap"
    \/ box.kind = "Spider" /\ <<Len(box.dom), Len(box.cod)>> \in {<<1, 1>>, <<2, 0>>}

\* the ends of edges that connections join, one entry for each joined end
JoinedEnds(net) == [k \in 1 .. 2 * Len(net.conns) |-> net.conns[(k + 1) \div 2][2 - (k % 2)]]

\* the scan of after holds the edges of the open wires after the layer, in
\* wire order: the edges left of the box are those of before, the wires
\* of cod are carried by the edges the box gives, and the edges right of
\* the box are those of before moved by the change of width
ScanFollowsWires(before, after, layer) ==
    LET off == Len(layer.left)
        n_in == Len(layer.box.dom)
        n_out == Len(layer.box.cod)
        node == Len(after.nodes)
    IN  /\ Len(after.scan) = Len(LayerCod(layer))
        /\ \A k \in 1 .. off : after.scan[k] = before.scan[k]
        /\ \A k \in 1 .. Len(layer.right) :
                after.scan[off + n_out + k] = before.scan[off + n_in + k]
        /\ \A k \in 1 .. n_out :
                after.scan[off + k] =
                    IF layer.box.kind = "Swap" THEN before.scan[off + 3 - k]
                    ELSE IF AddsNoNode(layer.box) THEN before.scan[off + k]
                    ELSE <<node, n_in + k - 1>>

(*************************************************************************)
(* C29: in to_tn, after each box is processed scan holds exactly one     *)
(* dangling edge for each open wire, in wire order; swaps, (1,1) spiders *)
(* and (2,0) spiders add no node, every other box adds one; no end of an *)
(* edge is connected twice; and what is returned is the input edges in   *)
(* the order of dom, then the open edges in the order of cod,            *)
(* len(dom) + len(cod) edges in all.                                     *)
(*************************************************************************)
C29_ScanEdges ==
    out.op = "to_tn" =>
        /\ \A i \in DOMAIN out.left.inside :
            LET before == out.trace[i]
                after == out.trace[i + 1]
                layer == out.left.inside[i]
                joined == JoinedEnds(after)
            IN  after.raised = "None" =>
                    /\ ScanFollowsWires(before, after, layer)
                    /\ \A k, l \in DOMAIN after.scan : after.scan[k] = after.scan[l] => k = l
                    /\ \A k \in DOMAIN after.scan, c \in DOMAIN joined :
                            after.scan[k] # joined[c]
                    /\ \A c, e \in DOMAIN joined : joined[c] = joined[e] => c = e
                    /\ Len(after.nodes)
                        = Len(before.nodes) + (IF AddsNoNode(layer.box) THEN 0 ELSE 1)
        /\ out.whole.raised = "None" =>
            LET order == out.whole.output_edge_order
                last == out.trace[Len(out.trace)]
                n == Len(out.left.dom)
            IN  /\ Len(order) = n + Len(out.left.cod)
                /\ \A k \in 1 .. n : order[k] = <<k, 0>>
                /\ \A k \in 1 .. Len(out.left.cod) : order[n + k] = last.scan[k]

\* a box that adds a node, then a cup, and the network is returned
C29_Witness ==
    /\ out.op = "to_tn"
    /\ out.whole.raised = "None"
    /\ Len(out.left.inside) = 2
    /\ ~AddsNoNode(out.left.inside[1].box)
    /\ out.left.inside[2].box.kind = "Spider"
    /\ <<Len(out.left.inside[2].box.dom), Len(out.left.inside[2].box.cod)>> = <<2, 0>>
    /\ Len(out.whole.output_edge_order) = Len(out.left.dom)

(*************************************************************************)
(* C30: to_tn gives every spider other than (1,1) and (2,0) one copy     *)
(* node of n_in + n_out legs whose legs have the dimension of the        *)
(* spider's own dim, also when the spider has no input leg, at any       *)
(* offset, at the right end of scan and on the empty scan; the node's    *)
(* tensor is the dense array of the spider.                              *)
(*************************************************************************)
C30_SpiderCopyNode ==
    out.op = "to_tn" =>
        \A i \in DOMAIN out.left.inside :
            LET before == out.trace[i]
                after == out.trace[i + 1]
                box == out.left.inside[i].box
                legs == box.dom \o box.cod
            IN  (box.kind = "Spider" /\ ~AddsNoNode(box) /\ before.raised = "None") =>
                    /\ after.raised = "None"
                    /\ Len(after.nodes) = Len(before.nodes) + 1
                    /\ after.nodes[Len(after.nodes)].shape = legs
                    /\ after.nodes[Len(after.nodes)] = CopyNode(Len(legs), legs[1])
                    /\ after.nodes[Len(after.nodes)].data = box.data

(*************************************************************************)
(* C7: swaps are natural: for boxes f : x -> y and g : z -> w,           *)
(* f @ g >> swap(f.cod, g.cod) == swap(f.dom, g.dom) >> g @ f.           *)
(*************************************************************************)
C7_Naturality == call.op = "naturality" => call.equal

\* two boxes between types of two atoms: equal, with different layers
C7_Witness ==
    /\ call.op = "naturality"
    /\ call.f.dom = <<"x", "y">> /\ call.f.cod = <<"y", "x">>
    /\ call.g.dom = <<"y", "y">> /\ call.g.cod = <<"x", "y">>
    /\ call.equal
    /\ call.lhs # call.rhs
    /\ Len(call.lhs.inside) = 6

(*************************************************************************)
(* C8: Yang-Baxter: on atoms x, y, z, Swap(x, y) @ z >> y @ Swap(x, z)   *)
(* >> Swap(y, z) @ x == x @ Swap(y, z) >> Swap(x, z) @ y >> z @ Swap(x,  *)
(* y).                                                                   *)
(*************************************************************************)
C8_YangBaxter ==
    call.op = "yang_baxter" =>
        /\ WellTyped(call.lhs) /\ WellTyped(call.rhs)
        /\ call.equal

C8_Witness ==
    /\ call.op = "yang_baxter"
    /\ call.x = <<"x">> /\ call.y = <<"y">> /\ call.z = <<"z">>
    /\ call.equal
    /\ call.lhs # call.rhs
    /\ call.lhs.cod = <<"z", "y", "x">>

(*************************************************************************)
(* C9: swaps are involutions: swap(x, y) >> swap(y, x) == Id(x @ y), for *)
(* atomic and for composite types x and y.                               *)
(*************************************************************************)
C9_SwapInvolution ==
    call.op = "involution" =>
        /\ WellTyped(call.lhs)
        /\ call.equal

\* composite types: eight swaps that cancel
C9_Witness ==
    /\ call.op = "involution"
    /\ call.x = <<"x", "y">> /\ call.y = <<"z", "x">>
    /\ Len(call.lhs.inside) = 8
    /\ call.equal

(*************************************************************************)
(* C10: Diagram.swap(left, right) is a diagram of swaps of atoms from    *)
(* left @ right to right @ left; swapping with the empty type gives the  *)
(* identity; and on atoms x, y, z the hexagons hold: swap(x, y @ z) ==   *)
(* Swap(x, y) @ z >> y @ Swap(x, z) and swap(x @ y, z) == x @ Swap(y, z) *)
(* >> Swap(x, z) @ y.                                                    *)
(*************************************************************************)
C10_Hexagon ==
    /\ call.op = "swap" =>
        LET d == call.result
        IN  /\ WellTyped(d)
            /\ d.dom = call.left \o call.right
            /\ d.cod = call.right \o call.left
            /\ \A i \in DOMAIN d.inside :
                /\ d.inside[i].box.kind = "Swap"
                /\ Len(d.inside[i].box.dom) = 2
            /\ Len(d.inside) = Len(call.left) * Len(call.right)
            /\ call.left = <<>> => Diagram_eq(d, Id(call.right))
            /\ call.right = <<>> => Diagram_eq(d, Id(call.left))
    /\ call.op = "hexagon" => call.equal1 /\ call.equal2

C10_Witness ==
    /\ call.op = "hexagon"
    /\ call.x = <<"x">> /\ call.y = <<"y">> /\ call.z = <<"z">>
    /\ call.equal1 /\ call.equal2
    /\ call.lhs1.cod = <<"y", "z", "x">>
    /\ call.lhs2.cod = <<"z", "x", "y">>
    /\ Len(call.lhs1.inside) = 2

=============================================================================
